---- MODULE Spec2Model ----
(***************************************************************************)
(* Decision engine of the dual-investment bot: the strategy ensemble       *)
(* manager (strategies/strategy_manager.py), the strategy base class       *)
(* (strategies/base_strategy.py) and the dual-investment strategy          *)
(* (strategies/dual_investment_strategy.py).                               *)
(*                                                                         *)
(* Numbers.  Python floats are modelled as exact rationals, records        *)
(* [n |-> numerator, d |-> denominator] in lowest terms with d > 0.        *)
(* Confidences and expected returns of strategy signals are given in       *)
(* percent, money amounts in cents, product minimum amounts and the        *)
(* portfolio value in whole dollars.  Binary floating-point rounding       *)
(* error (sums of floats taken in a different order, a tie that a float    *)
(* cannot represent) is outside the model.                                 *)
(*                                                                         *)
(* Dictionaries.  Python dicts keep insertion order and the code iterates  *)
(* them, so the strategy registry and the collected signals are sequences  *)
(* of entries in insertion order.                                          *)
(***************************************************************************)
EXTENDS Integers, Sequences, FiniteSets, TLC

(***************************************************************************)
(* Bounds of the model                                                     *)
(***************************************************************************)
MaxCalls == 2

(***************************************************************************)
(* Program constants                                                       *)
(***************************************************************************)
STRONG_BUY == 5
BUY == 4
NEUTRAL == 3
SELL == 2
STRONG_SELL == 1
MinConfidencePct == 60
FallbackMinConfidencePct == 60
FallbackAmountDollars == 1000
DefaultExpectedReturnPct == 15
SafetyFactorDen == 4
MaxPositionPct == 10
PortfolioTotalValue == 10000
PortfolioCurrentExposure == 0
PortfolioMaxRiskPerMille == 20

MainName == "DualInvestmentStrategy"
OtherNames == {"CustomStrategy"}
Names == {MainName} \cup OtherNames
Methods == {"weighted_average", "voting", "confidence_weighted"}
Weights == {-1, 0, 1, 2}

(***************************************************************************)
(* Exact rational arithmetic standing for Python float arithmetic          *)
(***************************************************************************)
Abs(x) == IF x < 0 THEN -x ELSE x

RECURSIVE GCD(_, _)
GCD(a, b) == IF b = 0 THEN a ELSE GCD(b, a % b)

Frac(n, d) ==
    LET g == GCD(Abs(n), Abs(d))
        s == IF d < 0 THEN -1 ELSE 1
    IN  [n |-> (s * n) \div g, d |-> (s * d) \div g]

FInt(k) == [n |-> k, d |-> 1]
FZero == FInt(0)
FLess(a, b) == a.n * b.d < b.n * a.d
FLeq(a, b) == a.n * b.d <= b.n * a.d
FAdd(a, b) == Frac(a.n * b.d + b.n * a.d, a.d * b.d)
FMul(a, b) == Frac(a.n * b.n, a.d * b.d)
FScale(k, a) ==
    LET g == GCD(Abs(k), a.d)
    IN  Frac((k \div g) * a.n, a.d \div g)
FMin(a, b) == IF FLess(b, a) THEN b ELSE a
Pct(p) == Frac(p, 100)

\* Python round() to an integer: nearest, ties to the even neighbour.
RoundHalfEven(a) ==
    LET fl == a.n \div a.d
        twice == 2 * (a.n - fl * a.d)
    IN  IF twice < a.d THEN fl
        ELSE IF twice > a.d THEN fl + 1
        ELSE IF fl % 2 = 0 THEN fl ELSE fl + 1

\* Python round(x, 2) of a dollar amount, as a whole number of cents.
RoundToCents(a) == RoundHalfEven(FScale(100, a))

(***************************************************************************)
(* Reasons, signals, products                                              *)
(***************************************************************************)
\* A reason string; src is the "<name>: " prefix an ensemble puts before it.
Reason(text) == [src |-> "", text |-> text]
Prefixed(name, r) == [src |-> name, text |-> r.text]

NoValidSignals == Reason("No valid signals from strategies")
BelowMinimum == Reason("Position size below minimum")

\* metadata of a signal: tag names the keys it holds; expected_return is
\* present only when has_er.
Meta(tag, has_er, er) == [tag |-> tag, has_er |-> has_er, er |-> er]

StrategySignal(name, strength, conf, reasons, meta) ==
    [strategy_name |-> name, signal |-> strength, confidence |-> conf,
     reasons |-> reasons, metadata |-> meta]

Products ==
    { [id |-> "P1", min_amount |-> 100, apy |-> 25, term_days |-> 7,
       exercise_probability |-> 30],
      [id |-> "P2", min_amount |-> 150, apy |-> 12, term_days |-> 3,
       exercise_probability |-> 50],
      [id |-> "P3", min_amount |-> 2000, apy |-> 40, term_days |-> 7,
       exercise_probability |-> 20] }

(***************************************************************************)
(* What one strategy's analyze() does for the evaluated (symbol, snapshot, *)
(* product): it raises, never returns, or returns a signal.                *)
(***************************************************************************)
NoSignal == StrategySignal("", NEUTRAL, FZero, << >>, Meta("empty", FALSE, 0))
Raises == [kind |-> "raise", sig |-> NoSignal]
Hangs == [kind |-> "hang", sig |-> NoSignal]
Unknown == [kind |-> "unknown", sig |-> NoSignal]
Returns(sig) == [kind |-> "signal", sig |-> sig]

\* DualInvestmentStrategy.analyze: the strength band of the total score.
SignalFromScore(total_score) ==
    IF total_score >= 80 THEN STRONG_BUY
    ELSE IF total_score >= 65 THEN BUY
    ELSE IF total_score >= 35 THEN NEUTRAL
    ELSE IF total_score >= 20 THEN SELL
    ELSE STRONG_SELL

\* The signal DualInvestmentStrategy.analyze builds from a total score (in
\* percent): strength from the band, confidence the score itself.
DualSignal(total_score) ==
    StrategySignal(MainName, SignalFromScore(total_score), Pct(total_score),
                   IF total_score >= 65
                       THEN << Reason("Favorable risk-reward ratio") >>
                       ELSE << >>,
                   Meta("scores", FALSE, 0))

DualScores == {50, 70, 90}

\* Signals of the other registered strategies (any BaseStrategy subclass).
CustomSignals(name) ==
    { StrategySignal(name, SELL, Pct(70), << Reason("momentum fading") >>,
                     Meta("custom", FALSE, 0)),
      StrategySignal(name, BUY, Pct(80), << Reason("momentum rising") >>,
                     Meta("custom", TRUE, 5)) }

Behaviours(name) ==
    {Raises, Hangs} \cup
    (IF name = MainName THEN {Returns(DualSignal(sc)) : sc \in DualScores}
     ELSE {Returns(sg) : sg \in CustomSignals(name)})

(***************************************************************************)
(* BaseStrategy / DualInvestmentStrategy                                   *)
(***************************************************************************)
\* validate_signal accepting every signal
Mut_ValidateSignal_AcceptsAll(sig) == TRUE

\* BaseStrategy.validate_signal
ValidateSignal(sig) == ~ FLess(sig.confidence, Pct(MinConfidencePct))

\* calculate_position_size without the safety factor on the Kelly fraction
Mut_CalculatePositionSize_FullKelly(sig, portfolio_value, current_exposure, max_risk_per_trade) ==
    LET expected_return == IF sig.metadata.has_er THEN sig.metadata.er
                           ELSE DefaultExpectedReturnPct
        position_fraction == FMul(sig.confidence, Pct(expected_return))
        remaining == IF portfolio_value > 0
                     THEN Frac(portfolio_value - current_exposure, portfolio_value)
                     ELSE FZero
        max_position_fraction ==
            FMin(FMin(Frac(max_risk_per_trade, 1000), Pct(MaxPositionPct)),
                 remaining)
    IN  RoundToCents(FScale(portfolio_value,
                            FMin(position_fraction, max_position_fraction)))

\* DualInvestmentStrategy.calculate_position_size; the result in cents.
\* expected_return in percent, max_risk_per_trade in per mille.
CalculatePositionSize(sig, portfolio_value, current_exposure, max_risk_per_trade) ==
    LET confidence == sig.confidence
        expected_return == IF sig.metadata.has_er THEN sig.metadata.er
                           ELSE DefaultExpectedReturnPct
        kelly_fraction == FMul(confidence, Pct(expected_return))
        position_fraction == FMul(kelly_fraction, Frac(1, SafetyFactorDen))
        remaining == IF portfolio_value > 0
                     THEN Frac(portfolio_value - current_exposure, portfolio_value)
                     ELSE FZero
        max_position_fraction ==
            FMin(FMin(Frac(max_risk_per_trade, 1000), Pct(MaxPositionPct)),
                 remaining)
        capped == FMin(position_fraction, max_position_fraction)
    IN  RoundToCents(FScale(portfolio_value, capped))

\* DualInvestmentStrategy._assess_risk, mean of three factors (each in
\* tenths); vol_ratio in percent.
AssessRisk(product, vol_ratio, risk_level) ==
    LET ep == product.exercise_probability
        f1 == IF ep <= 20 THEN 9 ELSE IF ep <= 35 THEN 7
              ELSE IF ep <= 50 THEN 5 ELSE 2
        f2 == IF 15 <= vol_ratio /\ vol_ratio <= 35 THEN 8
              ELSE IF vol_ratio < 15 THEN 6 ELSE 3
        f3 == IF risk_level = "LOW" THEN 9
              ELSE IF risk_level = "MEDIUM" THEN 6 ELSE 3
    IN  Frac(f1 + f2 + f3, 30)

\* the minimum amount check left out
Mut_BelowMinAmount_Skipped(amount, product) == FALSE

\* the minimum amount check of make_investment_decision (amount in cents)
BelowMinAmount(amount, product) == amount < product.min_amount * 100

\* DualInvestmentStrategy.make_investment_decision.  It appends to the
\* reasons list of the signal it is given; new_reasons is that list after
\* the call, and the decision's reasons are the same list object.
MakeInvestmentDecision(sig, product, portfolio) ==
    LET wants == sig.signal >= BUY /\ ~ FLess(sig.confidence, Pct(MinConfidencePct))
        amount == IF wants
                  THEN CalculatePositionSize(sig, portfolio.total_value,
                           portfolio.current_exposure, portfolio.max_risk_per_trade)
                  ELSE 0
        below == wants /\ BelowMinAmount(amount, product)
        should_invest == wants /\ ~ below
        new_reasons == IF below THEN Append(sig.reasons, BelowMinimum)
                       ELSE sig.reasons
        period_return == Frac(product.apy * product.term_days, 36500)
        expected_return == FMul(period_return,
                                Pct(100 - product.exercise_probability))
        \* signal.metadata has no 'volatility' key: the defaults 0.02, MEDIUM
        risk_score == FAdd(FInt(1), FScale(-1, AssessRisk(product, 2, "MEDIUM")))
        warnings == (IF FLess(Frac(7, 10), risk_score)
                        THEN << "High risk detected" >> ELSE << >>)
                    \o (IF product.exercise_probability > 40
                        THEN << "High exercise probability" >> ELSE << >>)
    IN  [decision |->
            [should_invest |-> should_invest,
             product_id |-> product.id,
             amount |-> amount,
             expected_return |-> expected_return,
             risk_score |-> risk_score,
             ai_score |-> sig.confidence,
             reasons |-> new_reasons,
             warnings |-> warnings,
             metadata |-> [tag |-> "decision", signal_strength |-> sig.signal,
                           scores |-> sig.metadata.tag = "scores"]],
         new_reasons |-> new_reasons]

(***************************************************************************)
(* StrategyManager: combining the collected signals.  sigs is the dict of  *)
(* validated signals as a sequence in insertion order, weights the         *)
(* strategy_weights dict.  A combination either returns a signal or lets   *)
(* an exception escape.                                                    *)
(***************************************************************************)
Ok(sig) == [ok |-> TRUE, error |-> "", sig |-> sig]
Err(e) == [ok |-> FALSE, error |-> e, sig |-> NoSignal]

\* self.strategy_weights.get(name, 1.0)
WeightOf(weights, name) ==
    IF name \in DOMAIN weights THEN weights[name] ELSE 1

\* all_reasons.extend([f"{name}: {reason}" ...]) over the signals in order
AllReasons(sigs) ==
    LET rs[i \in 0..Len(sigs)] ==
            IF i = 0 THEN << >>
            ELSE rs[i - 1] \o
                 [j \in 1..Len(sigs[i].reasons) |->
                     Prefixed(sigs[i].strategy_name, sigs[i].reasons[j])]
    IN  rs[Len(sigs)]

\* SignalStrength(round(avg_signal_value)): ValueError outside 1..5
StrengthOfAverage(avg, sig) ==
    LET v == RoundHalfEven(avg)
    IN  IF v \in STRONG_SELL..STRONG_BUY
        THEN Ok([sig EXCEPT !.signal = v])
        ELSE Err("ValueError")

\* StrategyManager._create_neutral_signal
CreateNeutralSignal ==
    StrategySignal("EnsembleStrategy", NEUTRAL, FZero, << NoValidSignals >>,
                   Meta("empty", FALSE, 0))

\* StrategyManager._weighted_average_ensemble
WeightedAverageEnsemble(sigs, weights) ==
    LET W(i) == WeightOf(weights, sigs[i].strategy_name)
        total_weight[i \in 0..Len(sigs)] ==
            IF i = 0 THEN 0 ELSE total_weight[i - 1] + W(i)
        weighted_signal[i \in 0..Len(sigs)] ==
            IF i = 0 THEN 0 ELSE weighted_signal[i - 1] + sigs[i].signal * W(i)
        weighted_confidence[i \in 0..Len(sigs)] ==
            IF i = 0 THEN FZero
            ELSE FAdd(weighted_confidence[i - 1], FScale(W(i), sigs[i].confidence))
        tw == total_weight[Len(sigs)]
        avg_signal_value == IF tw > 0 THEN Frac(weighted_signal[Len(sigs)], tw)
                            ELSE FInt(3)
        avg_confidence == IF tw > 0
                          THEN FMul(weighted_confidence[Len(sigs)], Frac(1, tw))
                          ELSE FZero
    IN  StrengthOfAverage(avg_signal_value,
            StrategySignal("EnsembleStrategy", NEUTRAL, avg_confidence,
                           AllReasons(sigs), Meta("individual_signals", FALSE, 0)))

\* StrategyManager._voting_ensemble
VotingEnsemble(sigs, weights) ==
    LET votes(s) ==
            LET v[i \in 0..Len(sigs)] ==
                    IF i = 0 THEN 0
                    ELSE v[i - 1] + (IF sigs[i].signal = s
                                     THEN WeightOf(weights, sigs[i].strategy_name)
                                     ELSE 0)
            IN  v[Len(sigs)]
        total_confidence[i \in 0..Len(sigs)] ==
            IF i = 0 THEN FZero
            ELSE FAdd(total_confidence[i - 1], sigs[i].confidence)
        \* max(votes, key=votes.get): the first maximum in the order the
        \* enum declares its members, STRONG_BUY .. STRONG_SELL
        order == << STRONG_BUY, BUY, NEUTRAL, SELL, STRONG_SELL >>
        best == CHOOSE k \in 1..5 :
                    /\ \A j \in 1..5 : votes(order[j]) <= votes(order[k])
                    /\ \A j \in 1..(k - 1) : votes(order[j]) < votes(order[k])
    IN  IF Len(sigs) = 0 THEN Err("ZeroDivisionError")
        ELSE Ok(StrategySignal("EnsembleStrategy", order[best],
                    FMul(total_confidence[Len(sigs)], Frac(1, Len(sigs))),
                    AllReasons(sigs), Meta("votes", FALSE, 0)))

\* StrategyManager._confidence_weighted_ensemble
ConfidenceWeightedEnsemble(sigs, weights) ==
    LET CW(i) == FScale(WeightOf(weights, sigs[i].strategy_name),
                        sigs[i].confidence)
        total_cw[i \in 0..Len(sigs)] ==
            IF i = 0 THEN FZero ELSE FAdd(total_cw[i - 1], CW(i))
        weighted_signal[i \in 0..Len(sigs)] ==
            IF i = 0 THEN FZero
            ELSE FAdd(weighted_signal[i - 1], FScale(sigs[i].signal, CW(i)))
        sum_weights[i \in 0..Len(sigs)] ==
            IF i = 0 THEN 0
            ELSE sum_weights[i - 1] + WeightOf(weights, sigs[i].strategy_name)
        tcw == total_cw[Len(sigs)]
        sw == sum_weights[Len(sigs)]
        base == StrategySignal("EnsembleStrategy", NEUTRAL, FZero,
                               AllReasons(sigs), Meta("method", FALSE, 0))
    IN  IF FLess(FZero, tcw)
        THEN IF sw = 0 THEN Err("ZeroDivisionError")
             ELSE StrengthOfAverage(
                      Frac(weighted_signal[Len(sigs)].n * tcw.d,
                           weighted_signal[Len(sigs)].d * tcw.n),
                      [base EXCEPT !.confidence = FMul(tcw, Frac(1, sw))])
        ELSE StrengthOfAverage(FInt(3), base)

\* _combine_signals without the early return for an empty dict
Mut_CombineSignals_NoEmptyCase(sigs, weights, method) ==
    IF Len(sigs) = 1 THEN Ok(sigs[1])
    ELSE IF method = "voting" THEN VotingEnsemble(sigs, weights)
    ELSE IF method = "confidence_weighted"
         THEN ConfidenceWeightedEnsemble(sigs, weights)
    ELSE WeightedAverageEnsemble(sigs, weights)

\* StrategyManager._combine_signals
CombineSignals(sigs, weights, method) ==
    IF Len(sigs) = 0 THEN Ok(CreateNeutralSignal)
    ELSE IF Len(sigs) = 1 THEN Ok(sigs[1])
    ELSE IF method = "weighted_average" THEN WeightedAverageEnsemble(sigs, weights)
    ELSE IF method = "voting" THEN VotingEnsemble(sigs, weights)
    ELSE IF method = "confidence_weighted"
         THEN ConfidenceWeightedEnsemble(sigs, weights)
    ELSE WeightedAverageEnsemble(sigs, weights)

\* The registry holds a DualInvestmentStrategy under its own name.
HasMain(registry) == \E i \in 1..Len(registry) : registry[i].name = MainName

Portfolio ==
    [total_value |-> PortfolioTotalValue,
     current_exposure |-> PortfolioCurrentExposure,
     max_risk_per_trade |-> PortfolioMaxRiskPerMille]

\* StrategyManager._make_ensemble_decision
MakeEnsembleDecision(ens, product, registry) ==
    IF HasMain(registry)
    THEN MakeInvestmentDecision(ens, product, Portfolio)
    ELSE LET should_invest ==
                 /\ ens.signal >= BUY
                 /\ ~ FLess(ens.confidence, Pct(FallbackMinConfidencePct))
         IN  [decision |->
                 [should_invest |-> should_invest,
                  product_id |-> product.id,
                  amount |-> IF should_invest THEN FallbackAmountDollars * 100
                             ELSE 0,
                  expected_return |-> Frac(product.apy * product.term_days, 36500),
                  risk_score |-> Frac(1, 2),
                  ai_score |-> ens.confidence,
                  reasons |-> ens.reasons,
                  warnings |-> << >>,
                  \* the ensemble signal's metadata: no signal_strength key
                  metadata |-> [tag |-> ens.metadata.tag,
                                signal_strength |-> 0,
                                scores |-> FALSE]],
              new_reasons |-> ens.reasons]

\* The InvestmentDecision of StrategyManager._create_neutral_result
NeutralDecision(product) ==
    [should_invest |-> FALSE,
     product_id |-> product.id,
     amount |-> 0,
     expected_return |-> FZero,
     risk_score |-> FInt(1),
     ai_score |-> FZero,
     reasons |-> << Reason("No active strategies available") >>,
     warnings |-> << "Strategy manager has no active strategies" >>,
     metadata |-> [tag |-> "empty", signal_strength |-> 0, scores |-> FALSE]]

(***************************************************************************)
(* State                                                                   *)
(***************************************************************************)
VARIABLES
    strategies,        \* StrategyManager.strategies: entries [name, is_active]
    strategy_weights,  \* StrategyManager.strategy_weights: name -> weight
    ensemble_method,   \* StrategyManager.ensemble_method
    pc,                \* position of the analyze_product call
    product,           \* argument of analyze_product
    parallel,          \* argument of analyze_product
    behaviour,         \* what each strategy's analyze does for these arguments,
                       \* as far as the calls have shown it
    active,            \* active_strategies of the running call, in dict order
    task,              \* per strategy: waiting, running, finished, collected
    late,              \* strategies whose analyze ran longer than the timeout
    signals,           \* strategy_signals of the running call
    ensemble,          \* ensemble_signal of the running call
    decision,          \* investment_decision of the running call
    raised,            \* the exception that escaped analyze_product, if any
    calls,             \* analyze_product calls that returned
    first_decision,    \* investment_decision the first call returned
    sizing,            \* a direct call of calculate_position_size and its result
    change,            \* a configuration call of another thread, half done
    configs,           \* the configurations the manager has been in, between calls
    call,              \* a direct call of an analysis function and its result
    batch,             \* a batch_analyze_products call
    ai,                \* the AI analysis service, its Redis cache and the clock
    trading,           \* the trading tasks, their queue and the investment records
    memory             \* the MemoryCache, its lock and the threads using it

vars == << strategies, strategy_weights, ensemble_method, pc, product, parallel,
           behaviour, active, task, late, signals, ensemble, decision, raised,
           calls, first_decision, sizing, change, configs, call, batch,
           ai, trading, memory >>

\* the state outside the analyze_product call and the sizing call
services == << ai, trading, memory >>
apart == << change, configs, call, batch, services >>
\* the state outside the strategy manager
others == << sizing, apart >>

NotCalled == [called |-> FALSE, confidence |-> 0, has_er |-> FALSE,
              expected_return |-> 0, portfolio_value |-> 0,
              current_exposure |-> 0, max_risk_per_trade |-> 0, result |-> 0]

config == << strategies, strategy_weights, ensemble_method >>
inputs == << product, parallel, behaviour >>
evaluation == << pc, active, task, late, signals, ensemble, decision, raised,
                 calls, first_decision >>

NoProduct == [id |-> "", min_amount |-> 0, apy |-> 0, term_days |-> 0,
              exercise_probability |-> 0]

Entry(name, is_active) == [name |-> name, is_active |-> is_active]
Registered(registry) == {registry[i].name : i \in 1..Len(registry)}
IndexOf(registry, name) == CHOOSE i \in 1..Len(registry) : registry[i].name = name
\* names of the active strategies, in the registry's order
ActiveNames(registry) ==
    LET act == SelectSeq(registry, LAMBDA e : e.is_active)
    IN  [i \in 1..Len(act) |-> act[i].name]
SeqRange(sq) == {sq[i] : i \in 1..Len(sq)}

\* no configuration call is under way
NoChange == [op |-> "none", name |-> "", weight |-> 0, count |-> 0]
\* the two dicts of the manager as they stand between configuration calls
Configuration(registry, weights) ==
    [strategies |-> registry, strategy_weights |-> weights]
\* no analysis function has been called directly
NoCall == [fn |-> "none"]
\* no response of analyze_market_with_ai yet
NoResponse == [request |-> 0, symbol |-> << >>, force_refresh |-> FALSE,
               from_cache |-> "absent", error |-> FALSE, at |-> 0,
               analysis |-> [symbol |-> << >>, timestamp |-> 0]]
\* no AIAnalysisService constructed yet; Redis empty, the clock at 0
NoAi == [constructed |-> FALSE, enabled |-> FALSE, cache_enabled |-> FALSE,
         cache_ttl |-> 0, now |-> 0, redis_up |-> TRUE, store |-> {},
         requests |-> 0, response |-> NoResponse, fresh |-> {}]
\* the most execute_investment requests queued with delay()
MaxDelays == 1
\* no execute_investment task running
NoTask == [pc |-> "idle", request |-> 0, retries |-> 0, record |-> 0]
\* the safety switch at its default, nothing queued, no investment record
NoTrading == [enable_automated_trading |-> FALSE,
              batch_tasks |-> 0, pending_tasks |-> 0,
              queue |-> {}, delays |-> 0, task |-> NoTask,
              records |-> << >>,
              subscriptions |-> [r \in 1..MaxDelays |-> 0]]
\* the threads that use the MemoryCache singleton
MemoryThreads == {"T1", "T2"}
\* what a thread that has not completed any cache operation got back
NoReturn == [op |-> "", hit |-> FALSE, value |-> "", expires_at |-> 0,
             at |-> 0, total_keys |-> 0, live_keys |-> 0]
\* the MemoryCache singleton, empty and unlocked, no thread inside it
NoMemory == [cache |-> << >>, lock |-> "free", now |-> 0, ops |-> 0,
             stack |-> [t \in MemoryThreads |-> << >>],
             result |-> [t \in MemoryThreads |-> NoReturn]]

\* batch_analyze_products has not been called
NoBatch == [pc |-> "idle", products |-> << >>, top_n |-> 0, outcomes |-> << >>,
            results |-> << >>, returned |-> << >>]

\* StrategyManager.__init__ with _initialize_default_strategies
Init ==
    /\ strategies = << Entry(MainName, TRUE) >>
    /\ strategy_weights = (MainName :> 1)
    /\ ensemble_method = "weighted_average"
    /\ pc = "idle"
    /\ product = NoProduct
    /\ parallel = TRUE
    /\ behaviour = [n \in Names |-> Unknown]
    /\ active = << >>
    /\ task = [n \in Names |-> "none"]
    /\ late = {}
    /\ signals = << >>
    /\ ensemble = NoSignal
    /\ decision = NeutralDecision(NoProduct)
    /\ raised = ""
    /\ calls = 0
    /\ first_decision = NeutralDecision(NoProduct)
    /\ sizing = NotCalled
    /\ change = NoChange
    /\ configs = {Configuration(<< Entry(MainName, TRUE) >>, (MainName :> 1))}
    /\ call = NoCall
    /\ batch = NoBatch
    /\ ai = NoAi
    /\ trading = NoTrading
    /\ memory = NoMemory

(***************************************************************************)
(* Administrative interface                                                *)
(***************************************************************************)
\* StrategyManager.add_strategy; a new strategy object is active
AddStrategy(name, weight) ==
    /\ pc = "idle"
    /\ strategies' =
          IF name \in Registered(strategies)
          THEN [strategies EXCEPT ![IndexOf(strategies, name)] = Entry(name, TRUE)]
          ELSE Append(strategies, Entry(name, TRUE))
    /\ strategy_weights' =
          [k \in DOMAIN strategy_weights \cup {name} |->
              IF k = name THEN weight ELSE strategy_weights[k]]
    /\ UNCHANGED << others, ensemble_method, inputs, evaluation >>

\* remove_strategy forgetting the weight table
Mut_RemoveStrategy_KeepsWeight(name) ==
    /\ pc = "idle"
    /\ IF name \in Registered(strategies)
       THEN strategies' = SelectSeq(strategies, LAMBDA e : e.name # name)
       ELSE UNCHANGED strategies
    /\ UNCHANGED << others, strategy_weights, ensemble_method, inputs, evaluation >>

\* StrategyManager.remove_strategy
RemoveStrategy(name) ==
    /\ pc = "idle"
    /\ IF name \in Registered(strategies)
       THEN /\ strategies' = SelectSeq(strategies, LAMBDA e : e.name # name)
            /\ strategy_weights' =
                  [k \in DOMAIN strategy_weights \ {name} |-> strategy_weights[k]]
       ELSE UNCHANGED << strategies, strategy_weights >>
    /\ UNCHANGED << others, ensemble_method, inputs, evaluation >>

\* StrategyManager.update_strategy_weight
UpdateStrategyWeight(name, weight) ==
    /\ pc = "idle"
    /\ IF name \in Registered(strategies)
       THEN strategy_weights' =
                [k \in DOMAIN strategy_weights \cup {name} |->
                    IF k = name THEN weight ELSE strategy_weights[k]]
       ELSE UNCHANGED strategy_weights
    /\ UNCHANGED << others, strategies, ensemble_method, inputs, evaluation >>

\* assignment to a registered strategy's is_active attribute
SetActive(name, flag) ==
    /\ pc = "idle"
    /\ name \in Registered(strategies)
    /\ strategies' = [strategies EXCEPT ![IndexOf(strategies, name)] =
                         Entry(name, flag)]
    /\ UNCHANGED << others, strategy_weights, ensemble_method, inputs, evaluation >>

\* assignment to StrategyManager.ensemble_method
SetEnsembleMethod(method) ==
    /\ pc = "idle"
    /\ ensemble_method' = method
    /\ UNCHANGED << others, strategies, strategy_weights, inputs, evaluation >>

(***************************************************************************)
(* analyze_product                                                         *)
(***************************************************************************)
\* the parallel path is taken for more than one active strategy
InParallel == parallel /\ Len(active) > 1

\* analyze_product up to the start of the strategies' analyses: the no
\* active strategy return, the submit of every analysis (parallel) or the
\* call of the first one (sequential)
StartEvaluation(p, par, beh) ==
    LET act == ActiveNames(strategies)
    IN  /\ product' = p
        /\ parallel' = par
        /\ behaviour' = beh
        /\ active' = act
        /\ late' = {}
        /\ signals' = << >>
        /\ raised' = ""
        /\ IF Len(act) = 0
           THEN /\ pc' = "done"
                /\ task' = [n \in Names |-> "none"]
                /\ ensemble' = CreateNeutralSignal
                /\ decision' = NeutralDecision(p)
                /\ calls' = calls + 1
           ELSE /\ pc' = "collect"
                /\ task' = [n \in Names |->
                              IF n \notin SeqRange(act) THEN "none"
                              ELSE IF (par /\ Len(act) > 1) \/ n = act[1]
                                   THEN "running" ELSE "waiting"]
                /\ ensemble' = NoSignal
                /\ decision' = NeutralDecision(NoProduct)
                /\ calls' = calls

\* first call of analyze_product(symbol, market_data, product, parallel)
AnalyzeProduct(p, par) ==
    /\ pc = "idle"
    /\ StartEvaluation(p, par, [n \in Names |-> Unknown])
    /\ UNCHANGED << others, config, first_decision >>

\* a further call with the same arguments and unchanged configuration
AnalyzeProductAgain ==
    /\ pc = "done"
    /\ calls < MaxCalls
    /\ StartEvaluation(product, parallel, behaviour)
    /\ first_decision' = IF calls = 1 THEN decision ELSE first_decision
    /\ UNCHANGED << others, config >>

\* the result timeout passes while a strategy's analyze is still running
TimeoutElapses(n) ==
    /\ pc = "collect"
    /\ task[n] = "running"
    /\ n \notin late
    /\ late' = late \cup {n}
    /\ UNCHANGED << others, config, inputs, pc, active, task, signals, ensemble,
                    decision, raised, calls, first_decision >>

\* a strategy's analyze returns or raises.  What it does is a function of
\* the call's arguments: the first call fixes it, a repeated call finds the
\* same.
StrategyCompletes(n, b) ==
    /\ pc = "collect"
    /\ task[n] = "running"
    /\ b.kind # "hang"
    /\ behaviour[n] \in {Unknown, b}
    /\ behaviour' = [behaviour EXCEPT ![n] = b]
    /\ task' = [task EXCEPT ![n] = "finished"]
    /\ UNCHANGED << others, config, product, parallel, pc, active, late, signals,
                    ensemble, decision, raised, calls, first_decision >>

\* a strategy's analyze turns out never to return
StrategyHangs(n) ==
    /\ pc = "collect"
    /\ task[n] = "running"
    /\ behaviour[n] = Unknown
    /\ behaviour' = [behaviour EXCEPT ![n] = Hangs]
    /\ UNCHANGED << others, config, product, parallel, pc, active, task, late, signals,
                    ensemble, decision, raised, calls, first_decision >>

\* the result of a raising analysis stored instead of dropped
Mut_CollectResult_KeepsFailed(sigs, outcome) ==
    IF outcome.kind = "raise" \/ ValidateSignal(outcome.sig)
    THEN Append(sigs, outcome.sig)
    ELSE sigs

\* the try block of _analyze_parallel / _analyze_sequential for one result
CollectResult(sigs, outcome) ==
    IF outcome.kind = "signal" /\ ValidateSignal(outcome.sig)
    THEN Append(sigs, outcome.sig)
    ELSE sigs

\* one iteration of the collecting loop: as_completed hands over a finished
\* future (parallel), or the sequential loop continues after its call
Collect(n) ==
    /\ pc = "collect"
    /\ task[n] = "finished"
    /\ signals' = CollectResult(signals, behaviour[n])
    /\ task' = [m \in Names |->
                  IF m = n THEN "collected"
                  ELSE IF /\ ~ InParallel
                          /\ \E i \in 1..(Len(active) - 1) :
                                active[i] = n /\ active[i + 1] = m
                       THEN "running"
                  ELSE task[m]]
    /\ UNCHANGED << others, config, inputs, pc, active, late, ensemble, decision,
                    raised, calls, first_decision >>

\* _combine_signals, once every analysis has been collected
Combine ==
    /\ pc = "collect"
    /\ \A n \in SeqRange(active) : task[n] = "collected"
    /\ LET r == CombineSignals(signals, strategy_weights, ensemble_method)
       IN  IF r.ok
           THEN /\ ensemble' = r.sig
                /\ pc' = "decide"
                /\ raised' = raised
           ELSE /\ ensemble' = ensemble
                /\ pc' = "raised"
                /\ raised' = r.error
    /\ UNCHANGED << others, config, inputs, active, task, late, signals, decision,
                    calls, first_decision >>

\* the decision step clearing the product's minimum amount
Mut_Decide_WritesProduct ==
    /\ pc = "decide"
    /\ LET d == MakeEnsembleDecision(ensemble, product, strategies)
       IN  /\ decision' = d.decision
           /\ ensemble' = [ensemble EXCEPT !.reasons = d.new_reasons]
           /\ signals' = IF Len(signals) = 1
                         THEN << [signals[1] EXCEPT !.reasons = d.new_reasons] >>
                         ELSE signals
    /\ product' = [product EXCEPT !.min_amount = 0]
    /\ pc' = "done"
    /\ calls' = calls + 1
    /\ UNCHANGED << others, config, parallel, behaviour, active, task, late,
                    raised, first_decision >>

\* _make_ensemble_decision and the return.  A single surviving signal is
\* itself the ensemble signal, so what is appended to the ensemble's reasons
\* shows in strategy_signals too.
Decide ==
    /\ pc = "decide"
    /\ LET d == MakeEnsembleDecision(ensemble, product, strategies)
       IN  /\ decision' = d.decision
           /\ ensemble' = [ensemble EXCEPT !.reasons = d.new_reasons]
           /\ signals' = IF Len(signals) = 1
                         THEN << [signals[1] EXCEPT !.reasons = d.new_reasons] >>
                         ELSE signals
    /\ pc' = "done"
    /\ calls' = calls + 1
    /\ UNCHANGED << others, config, inputs, active, task, late, raised, first_decision >>

Next ==
    \/ \E n \in Names, w \in Weights : AddStrategy(n, w)
    \/ \E n \in Names : RemoveStrategy(n)
    \/ \E n \in Names, w \in Weights : UpdateStrategyWeight(n, w)
    \/ \E n \in Names, f \in BOOLEAN : SetActive(n, f)
    \/ \E m \in Methods : SetEnsembleMethod(m)
    \/ \E p \in Products, par \in BOOLEAN : AnalyzeProduct(p, par)
    \/ AnalyzeProductAgain
    \/ \E n \in Names : TimeoutElapses(n)
    \/ \E n \in Names : \E b \in Behaviours(n) : StrategyCompletes(n, b)
    \/ \E n \in Names : StrategyHangs(n)
    \/ \E n \in Names : Collect(n)
    \/ Combine
    \/ Decide

Spec == Init /\ [][Next]_vars

TypeOK ==
    /\ pc \in {"idle", "collect", "decide", "done", "raised"}
    /\ Registered(strategies) = DOMAIN strategy_weights
    /\ calls \in 0..MaxCalls

(***************************************************************************)
(* calculate_position_size called on its own, for every input              *)
(***************************************************************************)
SizingConfidences == {33, 60, 80, 100}
SizingReturns == {5, 10, 15, 50}
SizingPortfolios == {0, 1, 333, 10000}
SizingExposures == {0, 100, 20000}
SizingMaxRisks == {20, 200}

SizingSignal(c, has_er, er) ==
    StrategySignal("caller", BUY, Pct(c), << >>, Meta("custom", has_er, er))

CallCalculatePositionSize(c, has_er, er, pv, ce, mr) ==
    /\ sizing' = [called |-> TRUE, confidence |-> c, has_er |-> has_er,
                  expected_return |-> er, portfolio_value |-> pv,
                  current_exposure |-> ce, max_risk_per_trade |-> mr,
                  result |-> CalculatePositionSize(SizingSignal(c, has_er, er),
                                                   pv, ce, mr)]
    /\ UNCHANGED << config, inputs, evaluation, apart >>

NextSizing ==
    \E c \in SizingConfidences, has_er \in BOOLEAN, er \in SizingReturns,
       pv \in SizingPortfolios, ce \in SizingExposures, mr \in SizingMaxRisks :
       /\ has_er \/ er = DefaultExpectedReturnPct
       /\ CallCalculatePositionSize(c, has_er, er, pv, ce, mr)

SpecSizing == Init /\ [][NextSizing]_vars

(***************************************************************************)
(* Properties                                                              *)
(***************************************************************************)
Returned == pc = "done"
Collected == pc \in {"decide", "done", "raised"}
SignalNames == {signals[i].strategy_name : i \in 1..Len(signals)}
\* the signal a strategy's analyze returned, before anything touched it
OriginalSignal(n) == behaviour[n].sig
OriginalSignals ==
    [i \in 1..Len(signals) |-> OriginalSignal(signals[i].strategy_name)]
\* the active strategies whose analyze returned a signal that passes validation
ExpectedValid ==
    {n \in SeqRange(active) :
        /\ behaviour[n].kind = "signal"
        /\ ~ FLess(behaviour[n].sig.confidence, Pct(MinConfidencePct))}
IsPrefix(a, b) == Len(a) <= Len(b) /\ SubSeq(b, 1, Len(a)) = a
EnoughConfidence(sig) == ~ FLess(sig.confidence, Pct(MinConfidencePct))

\* C1: if every active strategy raised or ran past the timeout, the call
\* returns a decision with should_invest = False and a non-empty reasons list.
C1_AllFailedNoInvest ==
    ( /\ Returned
      /\ Len(active) > 0
      /\ \A n \in SeqRange(active) : behaviour[n].kind = "raise" \/ n \in late )
    => /\ ~ decision.should_invest
       /\ Len(decision.reasons) > 0

\* C2: with zero surviving signals the ensemble signal is NEUTRAL with
\* confidence 0 and the reason "No valid signals from strategies", under
\* every ensemble method, and combining zero signals never raises.
C2_NoSignalsNeutral ==
    /\ (pc \in {"decide", "done"} /\ Len(signals) = 0)
       => /\ ensemble.signal = NEUTRAL
          /\ ensemble.confidence = FZero
          /\ NoValidSignals \in SeqRange(ensemble.reasons)
    /\ pc = "raised" => Len(signals) > 0

C2_Witness ==
    /\ Returned
    /\ Len(active) > 0
    /\ Len(signals) = 0
    /\ ensemble_method = "voting"
    /\ \E n \in SeqRange(active) : behaviour[n].kind = "signal"
    /\ ensemble.signal = NEUTRAL

\* C3: a strategy whose analyze raises is dropped without aborting the
\* evaluation: once collection is over, strategy_signals holds exactly the
\* valid signals of the other active strategies (strength, confidence and
\* reasons as returned), and the ensemble strength and confidence are those
\* combined from them alone.
C3_RaisingStrategyDropped ==
    /\ Collected =>
          /\ SignalNames = ExpectedValid
          /\ Len(signals) = Cardinality(ExpectedValid)
          /\ \A i \in 1..Len(signals) :
                LET o == OriginalSignal(signals[i].strategy_name)
                IN  /\ signals[i].signal = o.signal
                    /\ signals[i].confidence = o.confidence
                    /\ IsPrefix(o.reasons, signals[i].reasons)
    /\ (Returned /\ Len(active) > 0) =>
          LET r == CombineSignals(OriginalSignals, strategy_weights, ensemble_method)
          IN  /\ r.ok
              /\ ensemble.signal = r.sig.signal
              /\ ensemble.confidence = r.sig.confidence
              /\ IsPrefix(r.sig.reasons, ensemble.reasons)

C3_Witness ==
    /\ Returned
    /\ InParallel
    /\ \E n \in SeqRange(active) : behaviour[n].kind = "raise"
    /\ Len(signals) = 1
    /\ ensemble.signal = signals[1].signal

\* C4: a strategy that ran past the 10 s timeout is dropped: its signal is
\* not among the strategy_signals of the returned result.
C4_SlowStrategyDropped ==
    Returned => \A i \in 1..Len(signals) : signals[i].strategy_name \notin late

\* the position size the decision step works with, in cents
ComputedPositionSize ==
    IF HasMain(strategies)
    THEN CalculatePositionSize(ensemble, PortfolioTotalValue,
                               PortfolioCurrentExposure, PortfolioMaxRiskPerMille)
    ELSE FallbackAmountDollars * 100

\* C5: in the returned decision, should_invest holds exactly when the
\* ensemble strength is BUY or STRONG_BUY, the ensemble confidence is at
\* least min_confidence and the position size is not below min_amount.
C5_ShouldInvestIff ==
    (Returned /\ Len(active) > 0) =>
        ( decision.should_invest <=>
            /\ ensemble.signal >= BUY
            /\ EnoughConfidence(ensemble)
            /\ ComputedPositionSize >= product.min_amount * 100 )

SizingExactCents ==
    LET er == IF sizing.has_er THEN sizing.expected_return
              ELSE DefaultExpectedReturnPct
        kelly == Frac(sizing.confidence * er, 40000)
        risk == Frac(sizing.max_risk_per_trade, 1000)
        tenth == Frac(1, 10)
        rest == Frac(sizing.portfolio_value - sizing.current_exposure,
                     sizing.portfolio_value)
        smallest == FMin(FMin(kelly, risk), FMin(tenth, rest))
    IN  FScale(100, FScale(sizing.portfolio_value, smallest))

\* C7 as stated: for portfolio_value > 0 the result is exactly
\* portfolio_value * min(...), and the example yields 200.
C7_ExactProduct ==
    (sizing.called /\ sizing.portfolio_value > 0) =>
        FInt(sizing.result) = SizingExactCents

\* C7 amended: for portfolio_value > 0 the result is portfolio_value *
\* min(...) rounded to the nearest cent, so it differs from that product,
\* and exceeds the smallest cap, by at most half a cent; the example
\* (0.8, 0.10, 10000, 0, 0.02) yields 200.
C7_RoundedProduct ==
    /\ (sizing.called /\ sizing.portfolio_value > 0) =>
          LET diff == FAdd(FInt(sizing.result), FScale(-1, SizingExactCents))
          IN  /\ FLeq(diff, Frac(1, 2))
              /\ FLeq(Frac(-1, 2), diff)
    /\ ( /\ sizing.called
         /\ sizing.confidence = 80
         /\ sizing.has_er /\ sizing.expected_return = 10
         /\ sizing.portfolio_value = 10000
         /\ sizing.current_exposure = 0
         /\ sizing.max_risk_per_trade = 20 )
       => sizing.result = 20000

C7_Witness ==
    /\ sizing.called
    /\ sizing.portfolio_value = 333
    /\ sizing.current_exposure = 0
    /\ sizing.max_risk_per_trade = 20
    /\ sizing.confidence = 33
    /\ sizing.has_er /\ sizing.expected_return = 5
    /\ sizing.result = 137

\* the smallest and largest confidence among the surviving signals
MinSignalConfidence ==
    CHOOSE c \in {signals[i].confidence : i \in 1..Len(signals)} :
        \A i \in 1..Len(signals) : FLeq(c, signals[i].confidence)
MaxSignalConfidence ==
    CHOOSE c \in {signals[i].confidence : i \in 1..Len(signals)} :
        \A i \in 1..Len(signals) : FLeq(signals[i].confidence, c)

\* C8: under the weighted-average method the ensemble confidence lies
\* between the smallest and the largest confidence of the surviving signals,
\* whatever weights add_strategy / update_strategy_weight have set.
C8_ConfidenceWithinBounds ==
    ( /\ pc \in {"decide", "done"}
      /\ ensemble_method = "weighted_average"
      /\ Len(signals) >= 1 )
    => /\ FLeq(MinSignalConfidence, ensemble.confidence)
       /\ FLeq(ensemble.confidence, MaxSignalConfidence)

\* the surviving signals as returned by the strategies, in registry order
CanonicalSignals ==
    LET present == SelectSeq(active, LAMBDA n : n \in SignalNames)
    IN  [i \in 1..Len(present) |-> OriginalSignal(present[i])]

\* C9: the result of a parallel evaluation (ensemble strength, confidence,
\* reasons list, decision) is the same for every completion order, that is,
\* it is the result for the signals taken in registry order.
C9_CompletionOrderIrrelevant ==
    (Returned /\ InParallel) =>
        LET r == CombineSignals(CanonicalSignals, strategy_weights, ensemble_method)
            d == MakeEnsembleDecision(r.sig, product, strategies)
        IN  /\ r.ok
            /\ ensemble.signal = r.sig.signal
            /\ ensemble.confidence = r.sig.confidence
            /\ ensemble.reasons = d.new_reasons
            /\ decision = d.decision

\* C10: a repeated call with the same arguments and unchanged strategy
\* configuration returns the same InvestmentDecision as the first call.
C10_RepeatedCallSameDecision ==
    (Returned /\ calls >= 2) => decision = first_decision

(***************************************************************************)
(* Configuration calls of another thread while analyze_product runs.  The  *)
(* manager has no lock: add_strategy and remove_strategy write the two     *)
(* dicts one after the other, and analyze_product reads self.strategies    *)
(* when it starts, self.strategy_weights when it combines and              *)
(* self.strategies again when it decides.                                  *)
(***************************************************************************)
MaxChanges == 2
ConcurrentWeights == {0, 2}

Changing == change.op # "none"
MayChange == pc \in {"idle", "collect", "decide"} /\ ~ Changing
                /\ change.count < MaxChanges

\* add_strategy, the write to self.strategies
BeginAddStrategy(name, weight) ==
    /\ MayChange
    /\ strategies' =
          IF name \in Registered(strategies)
          THEN [strategies EXCEPT ![IndexOf(strategies, name)] = Entry(name, TRUE)]
          ELSE Append(strategies, Entry(name, TRUE))
    /\ change' = [op |-> "add", name |-> name, weight |-> weight,
                  count |-> change.count + 1]
    /\ UNCHANGED << sizing, services, configs, call, batch, strategy_weights,
                    ensemble_method, inputs, evaluation >>

\* add_strategy, the write to self.strategy_weights
FinishAddStrategy ==
    /\ change.op = "add"
    /\ strategy_weights' =
          [k \in DOMAIN strategy_weights \cup {change.name} |->
              IF k = change.name THEN change.weight ELSE strategy_weights[k]]
    /\ change' = [NoChange EXCEPT !.count = change.count]
    /\ configs' = configs \cup {Configuration(strategies, strategy_weights')}
    /\ UNCHANGED << sizing, services, call, batch, strategies, ensemble_method, inputs,
                    evaluation >>

\* remove_strategy, the del from self.strategies
BeginRemoveStrategy(name) ==
    /\ MayChange
    /\ name \in Registered(strategies)
    /\ strategies' = SelectSeq(strategies, LAMBDA e : e.name # name)
    /\ change' = [op |-> "remove", name |-> name, weight |-> 0,
                  count |-> change.count + 1]
    /\ UNCHANGED << sizing, services, configs, call, batch, strategy_weights,
                    ensemble_method, inputs, evaluation >>

\* remove_strategy, the del from self.strategy_weights
FinishRemoveStrategy ==
    /\ change.op = "remove"
    /\ strategy_weights' =
          [k \in DOMAIN strategy_weights \ {change.name} |-> strategy_weights[k]]
    /\ change' = [NoChange EXCEPT !.count = change.count]
    /\ configs' = configs \cup {Configuration(strategies, strategy_weights')}
    /\ UNCHANGED << sizing, services, call, batch, strategies, ensemble_method, inputs,
                    evaluation >>

\* update_strategy_weight of a registered strategy: a single write
ConcurrentUpdateStrategyWeight(name, weight) ==
    /\ MayChange
    /\ name \in Registered(strategies)
    /\ strategy_weights' =
          [k \in DOMAIN strategy_weights \cup {name} |->
              IF k = name THEN weight ELSE strategy_weights[k]]
    /\ change' = [NoChange EXCEPT !.count = change.count + 1]
    /\ configs' = configs \cup {Configuration(strategies, strategy_weights')}
    /\ UNCHANGED << sizing, services, call, batch, strategies, ensemble_method, inputs,
                    evaluation >>

NextConcurrent ==
    \/ \E n \in Names, w \in ConcurrentWeights : BeginAddStrategy(n, w)
    \/ FinishAddStrategy
    \/ \E n \in Names : BeginRemoveStrategy(n)
    \/ FinishRemoveStrategy
    \/ \E n \in Names, w \in ConcurrentWeights : ConcurrentUpdateStrategyWeight(n, w)
    \/ \E p \in Products, par \in BOOLEAN : AnalyzeProduct(p, par)
    \/ \E n \in Names : \E b \in Behaviours(n) : StrategyCompletes(n, b)
    \/ \E n \in Names : Collect(n)
    \/ Combine
    \/ Decide

SpecConcurrent == Init /\ [][NextConcurrent]_vars

\* the returned result is the one an evaluation of the collected signals
\* gives when all its reads find the configuration c
EvaluatedUnder(c) ==
    /\ active = ActiveNames(c.strategies)
    /\ LET r == CombineSignals(OriginalSignals, c.strategy_weights, ensemble_method)
           d == MakeEnsembleDecision(r.sig, product, c.strategies)
       IN  /\ r.ok
           /\ ensemble = [r.sig EXCEPT !.reasons = d.new_reasons]
           /\ decision = d.decision

\* C11: an evaluation that runs while another thread changes the
\* configuration sees one configuration only: the strategies it ran, the
\* weights it combined with and the strategy that made the decision all
\* belong to one of the states the configuration was in between calls.
C11_OneConfigurationObserved ==
    (Returned /\ Len(active) > 0) => \E c \in configs : EvaluatedUnder(c)

(***************************************************************************)
(* DualInvestmentEngine.evaluate_dual_investment_opportunity called on its *)
(* own.  Prices in whole dollars, apy in percent, the volatility ratio in  *)
(* per mille.                                                              *)
(***************************************************************************)
MinAprThresholdPct == 15

FDiv(a, b) == Frac(a.n * b.d, a.d * b.n)
FMax(a, b) == IF FLess(a, b) THEN b ELSE a

Recommendations == {"STRONG_BUY", "BUY", "HOLD", "SELL", "STRONG_SELL"}
Trends == {"BULLISH", "BEARISH", "SIDEWAYS"}

\* the exercise probability, lines 148-177
ExerciseProbability(prod, market) ==
    LET current_price == market.current_price
        strike_price == prod.strike_price
        price_distance ==
            IF prod.type = "BUY_LOW"
            THEN Frac(current_price - strike_price, current_price)
            ELSE Frac(strike_price - current_price, current_price)
        base_probability ==
            IF prod.type = "BUY_LOW"
            THEN IF market.recommendation \in {"SELL", "STRONG_SELL"} THEN Frac(6, 10)
                 ELSE IF market.trend = "BEARISH" THEN Frac(5, 10)
                 ELSE Frac(3, 10)
            ELSE IF market.recommendation \in {"BUY", "STRONG_BUY"} THEN Frac(6, 10)
                 ELSE IF market.trend = "BULLISH" THEN Frac(5, 10)
                 ELSE Frac(3, 10)
        volatility_factor == Frac(market.volatility_ratio, 1000)
        distance_factor ==
            FMax(FZero,
                 FAdd(FInt(1),
                      FScale(-1, FDiv(price_distance, FScale(5, volatility_factor)))))
    IN  FMul(base_probability, distance_factor)

\* evaluate_dual_investment_opportunity: the returned dict
EvaluateDualInvestmentOpportunity(prod, market) ==
    LET exercise_probability == ExerciseProbability(prod, market)
        expected_return == Frac(prod.apy * prod.term_days, 36500)
        risk_score ==
            FScale(100, FDiv(expected_return,
                             FAdd(FInt(1), Frac(market.volatility_ratio, 1000))))
        by_apy == prod.apy >= MinAprThresholdPct
        by_probability == /\ FLess(Frac(4, 10), exercise_probability)
                          /\ FLess(exercise_probability, Frac(7, 10))
        by_score == FLess(FInt(50), risk_score)
    IN  [product_id |-> prod.id,
         recommend |-> by_apy \/ by_probability \/ by_score,
         exercise_probability |-> exercise_probability,
         expected_return |-> expected_return,
         risk_score |-> risk_score,
         reasons |-> (IF by_apy THEN << "APY meets minimum threshold" >> ELSE << >>)
                     \o (IF by_probability
                         THEN << "Exercise probability is in optimal range" >>
                         ELSE << >>)
                     \o (IF by_score THEN << "Risk-adjusted score is favorable" >>
                         ELSE << >>)]

OpportunityStrikes == {50, 90, 98, 100, 102, 110}
OpportunityApys == {10, 20}
OpportunityVolatilities == {5, 20, 100}
OpportunityPrice == 100
OpportunityTermDays == 7

OpportunityProducts ==
    { [id |-> "D1", type |-> t, strike_price |-> k, apy |-> a,
       term_days |-> OpportunityTermDays] :
         t \in {"BUY_LOW", "SELL_HIGH"}, k \in OpportunityStrikes,
         a \in OpportunityApys }

OpportunityMarkets ==
    { [current_price |-> OpportunityPrice, recommendation |-> r, trend |-> t,
       volatility_ratio |-> v] :
         r \in Recommendations, t \in Trends, v \in OpportunityVolatilities }

CallEvaluateOpportunity(p, md) ==
    /\ call = NoCall
    /\ call' = [fn |-> "evaluate_dual_investment_opportunity",
                product |-> p, market |-> md,
                result |-> EvaluateDualInvestmentOpportunity(p, md)]
    /\ UNCHANGED << config, inputs, evaluation, sizing, services, change, configs, batch >>

NextOpportunity ==
    \E p \in OpportunityProducts, md \in OpportunityMarkets :
        CallEvaluateOpportunity(p, md)

SpecOpportunity == Init /\ [][NextOpportunity]_vars

\* C12: the exercise probability that evaluate_dual_investment_opportunity
\* returns lies between 0.01 and 0.99, for both product types, any strike
\* relative to the price, any recommendation, trend and positive volatility.
C12_ExerciseProbabilityClipped ==
    call.fn = "evaluate_dual_investment_opportunity" =>
        /\ FLeq(Frac(1, 100), call.result.exercise_probability)
        /\ FLeq(call.result.exercise_probability, Frac(99, 100))

(***************************************************************************)
(* DualInvestmentStrategy.analyze computed from the snapshot.  A snapshot  *)
(* holds the trend with its strength (the string analyze_trend sets, a     *)
(* number, or no entry), the MACD signal, support, resistance and price in *)
(* whole dollars with the type of these numbers (Python float, or the      *)
(* numpy.float64 that pandas hands out), and the volatility ratio in       *)
(* percent with its risk level.                                            *)
(***************************************************************************)
TrendWeightPct == 30
ApyWeightPct == 25
RiskWeightPct == 25
TechnicalWeightPct == 20

\* the risk_level expression of analyze_market_conditions
RiskLevel(volatility_ratio) ==
    IF FLess(Frac(5, 100), volatility_ratio) THEN "HIGH"
    ELSE IF FLess(Frac(2, 100), volatility_ratio) THEN "MEDIUM"
    ELSE "LOW"

StrengthText(t) == [kind |-> "str", text |-> t, value |-> 0]
StrengthNumber(pct) == [kind |-> "num", text |-> "", value |-> pct]
StrengthMissing == [kind |-> "missing", text |-> "", value |-> 0]

Score(x) == [ok |-> TRUE, error |-> "", score |-> x]
ScoreError(e) == [ok |-> FALSE, error |-> e, score |-> FZero]

\* DualInvestmentStrategy._analyze_trend: strength * 0.5 with a str operand
\* is a TypeError
AnalyzeTrend(md) ==
    LET strength == IF md.strength.kind = "missing" THEN Frac(1, 2)
                    ELSE Pct(md.strength.value)
    IN  IF md.trend = "BULLISH"
        THEN IF md.strength.kind = "str" THEN ScoreError("TypeError")
             ELSE Score(FMin(FAdd(Frac(1, 2), FMul(strength, Frac(1, 2))), FInt(1)))
        ELSE IF md.trend = "BEARISH"
        THEN IF md.strength.kind = "str" THEN ScoreError("TypeError")
             ELSE Score(FMax(FAdd(Frac(1, 2), FScale(-1, FMul(strength, Frac(3, 10)))),
                             Frac(2, 10)))
        ELSE Score(Frac(1, 2))

\* DualInvestmentStrategy._evaluate_apy, apy in percent
EvaluateApy(prod) ==
    LET apy == prod.apy
    IN  IF apy < 10 THEN FZero
        ELSE IF apy >= 50 THEN FInt(1)
        ELSE IF apy >= 30 THEN FAdd(Frac(8, 10), Pct(apy - 30))
        ELSE IF apy >= 20 THEN FAdd(Frac(6, 10), Pct(2 * (apy - 20)))
        ELSE FAdd(Frac(3, 10), Pct(3 * (apy - 10)))

\* the support / resistance step of _analyze_technicals: the score it
\* appends.  (current_price - support) / (resistance - support) with a zero
\* divisor raises for Python floats and gives inf, -inf or nan (none of
\* which lies in a band) for numpy.float64.
RangePosition(md) ==
    IF md.resistance = md.support
    THEN IF md.numeric = "float" THEN ScoreError("ZeroDivisionError")
         ELSE Score(Frac(3, 10))
    ELSE LET position == Frac(md.current_price - md.support,
                              md.resistance - md.support)
         IN  IF FLeq(Frac(3, 10), position) /\ FLeq(position, Frac(7, 10))
             THEN Score(Frac(7, 10))
             ELSE IF FLeq(Frac(2, 10), position) /\ FLeq(position, Frac(8, 10))
             THEN Score(Frac(5, 10))
             ELSE Score(Frac(3, 10))

\* DualInvestmentStrategy._analyze_technicals.  The snapshot has no 'rsi'
\* and no 'ma_signal' entry: the defaults 50 and 'NEUTRAL' score 0.7 and 0.5.
AnalyzeTechnicals(md) ==
    LET rsi_score == Frac(7, 10)
        macd_score == IF md.macd_signal = "BUY" THEN Frac(8, 10)
                      ELSE IF md.macd_signal = "NEUTRAL" THEN Frac(5, 10)
                      ELSE Frac(2, 10)
        ma_score == Frac(5, 10)
        three == FAdd(FAdd(rsi_score, macd_score), ma_score)
        guarded == md.support # 0 /\ md.resistance # 0 /\ md.current_price # 0
        range == RangePosition(md)
    IN  IF ~ guarded THEN Score(FMul(three, Frac(1, 3)))
        ELSE IF ~ range.ok THEN range
        ELSE Score(FMul(FAdd(three, range.score), Frac(1, 4)))

\* the strength bands with NEUTRAL and SELL exchanged
Mut_SignalFromTotal_SellAboveNeutral(total_score) ==
    IF FLeq(Frac(80, 100), total_score) THEN STRONG_BUY
    ELSE IF FLeq(Frac(65, 100), total_score) THEN BUY
    ELSE IF FLeq(Frac(35, 100), total_score) THEN SELL
    ELSE IF FLeq(Frac(20, 100), total_score) THEN NEUTRAL
    ELSE STRONG_SELL

\* the strength band of a total score
SignalFromTotal(total_score) ==
    IF FLeq(Frac(80, 100), total_score) THEN STRONG_BUY
    ELSE IF FLeq(Frac(65, 100), total_score) THEN BUY
    ELSE IF FLeq(Frac(35, 100), total_score) THEN NEUTRAL
    ELSE IF FLeq(Frac(20, 100), total_score) THEN SELL
    ELSE STRONG_SELL

\* the reason a score adds: above 0.7 the first text, below 0.3 the second
ScoreReason(score, high, low) ==
    IF FLess(Frac(7, 10), score) THEN << Reason(high) >>
    ELSE IF FLess(score, Frac(3, 10)) THEN << Reason(low) >>
    ELSE << >>

AnalyzeRaises(e) == [kind |-> "raise", error |-> e, sig |-> NoSignal]
AnalyzeReturns(sig) == [kind |-> "signal", error |-> "", sig |-> sig]

\* DualInvestmentStrategy.analyze
Analyze(md, prod) ==
    LET trend == AnalyzeTrend(md)
        apy_score == EvaluateApy(prod)
        risk_score == AssessRisk(prod, md.volatility_ratio, md.risk_level)
        technical == AnalyzeTechnicals(md)
        total_score ==
            FAdd(FAdd(FMul(trend.score, Pct(TrendWeightPct)),
                      FMul(apy_score, Pct(ApyWeightPct))),
                 FAdd(FMul(risk_score, Pct(RiskWeightPct)),
                      FMul(technical.score, Pct(TechnicalWeightPct))))
        reasons ==
            ScoreReason(trend.score, "Strong trend detected", "Weak or adverse trend")
            \o (IF FLess(Frac(8, 10), apy_score) THEN << Reason("Excellent APY") >>
                ELSE IF FLess(apy_score, Frac(4, 10)) THEN << Reason("Low APY") >>
                ELSE << >>)
            \o ScoreReason(risk_score, "Favorable risk-reward ratio",
                           "High risk level detected")
            \o ScoreReason(technical.score, "Positive technical indicators",
                           "Negative technical signals")
    IN  IF ~ trend.ok THEN AnalyzeRaises(trend.error)
        ELSE IF ~ technical.ok THEN AnalyzeRaises(technical.error)
        ELSE AnalyzeReturns(
                 StrategySignal(MainName, SignalFromTotal(total_score), total_score,
                                reasons, Meta("scores", FALSE, 0)))

AnalysisTrends ==
    { << "BULLISH", StrengthText("STRONG") >>,
      << "BULLISH", StrengthText("MODERATE") >>,
      << "BEARISH", StrengthText("STRONG") >>,
      << "BEARISH", StrengthText("MODERATE") >>,
      << "SIDEWAYS", StrengthText("NEUTRAL") >>,
      << "BULLISH", StrengthNumber(80) >>,
      << "BEARISH", StrengthNumber(80) >>,
      << "SIDEWAYS", StrengthMissing >> }
\* support, resistance, current price
AnalysisLevels ==
    { << 95, 105, 100 >>, << 90, 110, 92 >>, << 100, 100, 100 >>,
      << 100, 100, 101 >>, << 0, 0, 100 >> }
AnalysisVolatilities == {1, 2, 6, 20}

AnalysisSnapshots ==
    { [trend |-> t[1], strength |-> t[2], macd_signal |-> macd,
       support |-> l[1], resistance |-> l[2], current_price |-> l[3],
       numeric |-> num, volatility_ratio |-> v, risk_level |-> RiskLevel(Pct(v))] :
         t \in AnalysisTrends, macd \in {"BUY", "SELL"}, l \in AnalysisLevels,
         num \in {"float", "numpy"}, v \in AnalysisVolatilities }

CallAnalyze(md, p) ==
    /\ call = NoCall
    /\ call' = [fn |-> "analyze", market_data |-> md, product |-> p,
                result |-> Analyze(md, p)]
    /\ UNCHANGED << config, inputs, evaluation, sizing, services, change, configs, batch >>

\* a product whose APY is below the 10% at which _evaluate_apy scores 0
LowApyProducts ==
    { [id |-> "P4", min_amount |-> 100, apy |-> 5, term_days |-> 7,
       exercise_probability |-> 30] }
AnalysisProducts == Products \cup LowApyProducts

NextAnalysis ==
    \E md \in AnalysisSnapshots, p \in AnalysisProducts : CallAnalyze(md, p)

SpecAnalysis == Init /\ [][NextAnalysis]_vars

\* C13: for a snapshot whose support and resistance are the same non-zero
\* number, analyze returns a signal (wherever the trend score itself can be
\* computed, which is C14's matter).
C13_IdenticalLevelsAnalysed ==
    ( /\ call.fn = "analyze"
      /\ call.market_data.support = call.market_data.resistance
      /\ call.market_data.support # 0
      /\ AnalyzeTrend(call.market_data).ok )
    => call.result.kind = "signal"

\* a snapshot as analyze_market_conditions builds it: the strength is the
\* string analyze_trend sets for the trend, the levels are pandas results
ProducedByAnalyzeMarketConditions(md) ==
    /\ md.strength.kind = "str"
    /\ md.trend \in {"BULLISH", "BEARISH"} <=> md.strength.text \in {"STRONG", "MODERATE"}
    /\ md.trend = "SIDEWAYS" <=> md.strength.text = "NEUTRAL"
    /\ md.numeric = "numpy"
    /\ md.support > 0

\* C14: for every snapshot analyze_market_conditions can produce, a bullish
\* or bearish one included, analyze returns a signal whose confidence lies
\* between 0 and 1.
C14_TrendingMarketAnalysed ==
    ( /\ call.fn = "analyze"
      /\ ProducedByAnalyzeMarketConditions(call.market_data) )
    => /\ call.result.kind = "signal"
       /\ FLeq(FZero, call.result.sig.confidence)
       /\ FLeq(call.result.sig.confidence, FInt(1))

(***************************************************************************)
(* MarketAnalysisService.analyze_trend and get_market_signals on a series  *)
(* of closes (whole dollars, oldest first).  A pandas rolling window that  *)
(* is not full gives NaN, and every comparison with NaN is false.          *)
(***************************************************************************)
SmaShortPeriod == 20
SmaLongPeriod == 50
RsiPeriod == 14
BollingerPeriod == 20
BollingerStdDev == 2
RsiOversold == 30
RsiOverbought == 70

NaN == [nan |-> TRUE, v |-> FZero]
Num(x) == [nan |-> FALSE, v |-> x]
Greater(a, b) == ~ a.nan /\ ~ b.nan /\ FLess(b.v, a.v)

\* sum of the last k entries of a series
SumLast(series, k) ==
    LET n == Len(series)
        acc[i \in (n - k)..n] ==
            IF i = n - k THEN 0 ELSE acc[i - 1] + series[i]
    IN  acc[n]

\* sum of the squares of the last k entries of a series
SumSquaresLast(series, k) ==
    LET n == Len(series)
        acc[i \in (n - k)..n] ==
            IF i = n - k THEN 0 ELSE acc[i - 1] + series[i] * series[i]
    IN  acc[n]

\* the window always SmaShortPeriod closes long, whatever the period
Mut_CalculateSma_FixedWindow(series, period) ==
    IF Len(series) < period THEN NaN
    ELSE Num(Frac(SumLast(series, SmaShortPeriod), SmaShortPeriod))

\* calculate_sma(df, period).iloc[-1]
CalculateSma(series, period) ==
    IF Len(series) < period THEN NaN
    ELSE Num(Frac(SumLast(series, period), period))

\* MarketAnalysisService.analyze_trend
AnalyzeTrendOfSeries(series) ==
    LET sma_20 == CalculateSma(series, SmaShortPeriod)
        sma_50 == CalculateSma(series, SmaLongPeriod)
        current_price == Num(FInt(series[Len(series)]))
        above == Num(FMul(sma_20.v, Frac(102, 100)))
        below == Num(FMul(sma_20.v, Frac(98, 100)))
        indicators == [sma_20 |-> sma_20, sma_50 |-> sma_50,
                       current_price |-> current_price]
    IN  IF Greater(current_price, sma_20) /\ Greater(sma_20, sma_50)
        THEN [trend |-> "BULLISH",
              strength |-> IF ~ sma_20.nan /\ FLess(above.v, current_price.v)
                           THEN "STRONG" ELSE "MODERATE",
              indicators |-> indicators]
        ELSE IF Greater(sma_20, current_price) /\ Greater(sma_50, sma_20)
        THEN [trend |-> "BEARISH",
              strength |-> IF ~ sma_20.nan /\ FLess(current_price.v, below.v)
                           THEN "STRONG" ELSE "MODERATE",
              indicators |-> indicators]
        ELSE [trend |-> "SIDEWAYS", strength |-> "NEUTRAL",
              indicators |-> indicators]

\* calculate_rsi(df).iloc[-1].  delta.where(...) turns the NaN of the first
\* difference into 0, so the window is full from 14 bars on; gain / loss is
\* inf for a zero loss and nan for 0 / 0.
CalculateRsi(series) ==
    LET n == Len(series)
        delta(i) == IF i = 1 THEN 0 ELSE series[i] - series[i - 1]
        gain[i \in (n - RsiPeriod)..n] ==
            IF i = n - RsiPeriod THEN 0
            ELSE gain[i - 1] + (IF delta(i) > 0 THEN delta(i) ELSE 0)
        loss[i \in (n - RsiPeriod)..n] ==
            IF i = n - RsiPeriod THEN 0
            ELSE loss[i - 1] + (IF delta(i) < 0 THEN - delta(i) ELSE 0)
    IN  IF n < RsiPeriod THEN NaN
        ELSE IF loss[n] = 0 /\ gain[n] = 0 THEN NaN
        ELSE IF loss[n] = 0 THEN Num(FInt(100))
        ELSE Num(Frac(100 * gain[n], gain[n] + loss[n]))

\* the Bollinger signal: price against sma -/+ 2 * std (sample standard
\* deviation) of the last 20 closes.  With S the sum and Q the sum of squares
\* of the window, price - sma = D / 20 for D = 20 * price - S and
\* std^2 = (20 * Q - S^2) / (20 * 19).
BollingerSignal(series) ==
    LET k == BollingerPeriod
        n == Len(series)
        S == SumLast(series, k)
        Q == SumSquaresLast(series, k)
        D == k * series[n] - S
        beyond == (k - 1) * D * D
                    > BollingerStdDev * BollingerStdDev * k * (k * Q - S * S)
    IN  IF n < k THEN "HOLD"
        ELSE IF D < 0 /\ beyond THEN "BUY"
        ELSE IF D > 0 /\ beyond THEN "SELL"
        ELSE "HOLD"

IsConstant(series) == \A i \in 1..Len(series) : series[i] = series[1]

\* MarketAnalysisService.get_market_signals.  The MACD histogram is built
\* from exponential averages, defined from the first bar on; its sign is an
\* input of the model, 0 for a constant series.
GetMarketSignals(series, histogram_sign) ==
    LET current_rsi == CalculateRsi(series)
        rsi_signal ==
            IF Greater(Num(FInt(RsiOversold)), current_rsi) THEN "OVERSOLD"
            ELSE IF Greater(current_rsi, Num(FInt(RsiOverbought))) THEN "OVERBOUGHT"
            ELSE "NEUTRAL"
        macd_signal == IF histogram_sign > 0 THEN "BUY" ELSE "SELL"
        bb_signal == BollingerSignal(series)
        count(b) == IF b THEN 1 ELSE 0
        buy_signals == count(rsi_signal = "OVERSOLD") + count(macd_signal = "BUY")
                         + count(bb_signal = "BUY")
        sell_signals == count(rsi_signal = "OVERBOUGHT") + count(macd_signal = "SELL")
                          + count(bb_signal = "SELL")
    IN  [rsi_signal |-> rsi_signal,
         macd_signal |-> macd_signal,
         bb_signal |-> bb_signal,
         recommendation |->
             IF buy_signals >= 2 THEN "STRONG_BUY"
             ELSE IF buy_signals > sell_signals THEN "BUY"
             ELSE IF sell_signals >= 2 THEN "STRONG_SELL"
             ELSE IF sell_signals > buy_signals THEN "SELL"
             ELSE "HOLD",
         indicators |-> [current_rsi |-> current_rsi,
                         macd_histogram |-> histogram_sign]]

SeriesLengths == {1, 13, 14, 19, 20, 49, 50, 200, 201}
SeriesShapes == {"rising", "rising_fast", "flat", "falling", "rising_then_flat",
                 "rising_last_two_equal", "zigzag", "dip_at_end"}
SeriesBase == 10

Smaller(a, b) == IF a < b THEN a ELSE b
Larger(a, b) == IF a < b THEN b ELSE a

\* the closes of a series of the given shape and length
MakeSeries(shape, n) ==
    [i \in 1..n |->
        IF shape = "rising" THEN SeriesBase + i
        ELSE IF shape = "rising_fast" THEN SeriesBase + 2 * i
        ELSE IF shape = "flat" THEN SeriesBase
        ELSE IF shape = "falling" THEN SeriesBase + n - i
        ELSE IF shape = "rising_then_flat"
             THEN SeriesBase + Smaller(i, Larger(1, n - (SmaShortPeriod - 1)))
        ELSE IF shape = "rising_last_two_equal"
             THEN SeriesBase + Smaller(i, Larger(1, n - 1))
        ELSE IF shape = "zigzag" THEN SeriesBase + 3 * (i % 2)
        ELSE \* dip_at_end: flat with a last close far below
             IF i = n /\ n > 1 THEN 1 ELSE SeriesBase]

StrictlyIncreasing(series) ==
    \A i \in 1..(Len(series) - 1) : series[i] < series[i + 1]
NonDecreasing(series) ==
    \A i \in 1..(Len(series) - 1) : series[i] <= series[i + 1]

\* analyze_trend and get_market_signals on one series, as
\* analyze_market_conditions calls them
CallAnalyzeSeries(shape, n, histogram_sign) ==
    LET series == MakeSeries(shape, n)
    IN  /\ call = NoCall
        /\ IsConstant(series) => histogram_sign = 0
        /\ call' = [fn |-> "analyze_series", shape |-> shape, series |-> series,
                    trend |-> AnalyzeTrendOfSeries(series),
                    signals |-> GetMarketSignals(series, histogram_sign)]
        /\ UNCHANGED << config, inputs, evaluation, sizing, services, change, configs, batch >>

NextSeries ==
    \E shape \in SeriesShapes, n \in SeriesLengths, h \in {-1, 0, 1} :
        CallAnalyzeSeries(shape, n, h)

SpecSeries == Init /\ [][NextSeries]_vars

\* C15: on a series too short for an indicator the analyzer does not report
\* the plain value it reports on sufficient data: no SIDEWAYS / NEUTRAL
\* trend below 50 bars, no HOLD Bollinger signal below 20 bars, no NEUTRAL
\* RSI signal below 14 bars.
C15_ShortSeriesNotPlainNeutral ==
    call.fn = "analyze_series" =>
        /\ Len(call.series) < SmaLongPeriod =>
              ~ (call.trend.trend = "SIDEWAYS" /\ call.trend.strength = "NEUTRAL")
        /\ Len(call.series) < BollingerPeriod => call.signals.bb_signal # "HOLD"
        /\ Len(call.series) < RsiPeriod => call.signals.rsi_signal # "NEUTRAL"

\* C17 as stated: every series of at least 200 closes that never decrease
\* is analysed as BULLISH.
C17_MonotoneSeriesBullish ==
    ( /\ call.fn = "analyze_series"
      /\ Len(call.series) >= 200
      /\ NonDecreasing(call.series) )
    => call.trend.trend = "BULLISH"

\* the reported trend follows the rule on the reported indicators
TrendRule ==
    LET ind == call.trend.indicators
        up == Greater(ind.current_price, ind.sma_20) /\ Greater(ind.sma_20, ind.sma_50)
        down == Greater(ind.sma_20, ind.current_price) /\ Greater(ind.sma_50, ind.sma_20)
    IN  /\ call.trend.trend = "BULLISH" <=> up
        /\ call.trend.trend = "BEARISH" <=> down
        /\ call.trend.trend = "SIDEWAYS" <=> (~ up /\ ~ down)
        /\ call.trend.trend = "SIDEWAYS" => call.trend.strength = "NEUTRAL"

\* C17 amended: every series of at least 200 strictly increasing closes is
\* analysed as BULLISH, and the trend of every series follows the rule
\* BULLISH iff price > SMA-20 > SMA-50, BEARISH iff price < SMA-20 < SMA-50,
\* otherwise SIDEWAYS with strength NEUTRAL.
C17_StrictlyIncreasingBullish ==
    call.fn = "analyze_series" =>
        /\ (Len(call.series) >= 200 /\ StrictlyIncreasing(call.series))
              => call.trend.trend = "BULLISH"
        /\ TrendRule

C17_Witness ==
    /\ call.fn = "analyze_series"
    /\ Len(call.series) >= 200
    /\ StrictlyIncreasing(call.series)
    /\ call.trend.trend = "BULLISH"
    /\ call.trend.strength = "STRONG"

(***************************************************************************)
(* The volatility entry of analyze_market_conditions: the ratio of the     *)
(* last ATR to the current price and its risk level.  ATR and price in     *)
(* whole dollars.                                                          *)
(***************************************************************************)
VolatilityAtrs == 0..12
VolatilityPrices == {50, 100, 150, 200, 250, 300, 400, 600}

CallVolatility(current_atr, current_price) ==
    LET volatility_ratio == Frac(current_atr, current_price)
    IN  /\ call = NoCall
        /\ call' = [fn |-> "volatility", atr |-> current_atr,
                    current_price |-> current_price,
                    volatility_ratio |-> volatility_ratio,
                    risk_level |-> RiskLevel(volatility_ratio)]
        /\ UNCHANGED << config, inputs, evaluation, sizing, services, change, configs, batch >>

NextVolatility ==
    \E a \in VolatilityAtrs, p \in VolatilityPrices : CallVolatility(a, p)

SpecVolatility == Init /\ [][NextVolatility]_vars

\* C16: the risk level is LOW for a ratio below 0.02, MEDIUM from 0.02 up to
\* but not including 0.05, and HIGH from 0.05 on.
C16_VolatilityTiers ==
    call.fn = "volatility" =>
        call.risk_level =
            IF FLess(call.volatility_ratio, Frac(2, 100)) THEN "LOW"
            ELSE IF FLess(call.volatility_ratio, Frac(5, 100)) THEN "MEDIUM"
            ELSE "HIGH"

(***************************************************************************)
(* Properties of the evaluation, continued                                 *)
(***************************************************************************)
\* the strategy returned a signal whose confidence is below min_confidence
LowConfidence(n) ==
    /\ behaviour[n].kind = "signal"
    /\ FLess(behaviour[n].sig.confidence, Pct(MinConfidencePct))

\* C18: a signal with a confidence below min_confidence (0.6) is rejected:
\* it is never among the collected strategy_signals, on the parallel and on
\* the sequential path, and the ensemble strength, confidence and reasons
\* are those of the signals with a confidence of at least 0.6 alone.
C18_LowConfidenceRejected ==
    /\ \A i \in 1..Len(signals) :
          ~ FLess(signals[i].confidence, Pct(MinConfidencePct))
    /\ Collected =>
          \A n \in SeqRange(active) : LowConfidence(n) => n \notin SignalNames
    /\ (Returned /\ Len(active) > 0) =>
          LET accepted == SelectSeq(OriginalSignals,
                              LAMBDA sg : ~ FLess(sg.confidence, Pct(MinConfidencePct)))
              r == CombineSignals(accepted, strategy_weights, ensemble_method)
          IN  /\ r.ok
              /\ ensemble.signal = r.sig.signal
              /\ ensemble.confidence = r.sig.confidence
              /\ \A j \in 1..Len(ensemble.reasons) :
                    \A n \in SeqRange(active) :
                       LowConfidence(n) => ensemble.reasons[j].src # n

C18_Witness ==
    /\ Returned
    /\ InParallel
    /\ \E n \in SeqRange(active) : LowConfidence(n) /\ n \notin SignalNames
    /\ Len(signals) = 1
    /\ ensemble.confidence = signals[1].confidence

\* a step of a running analyze_product call keeps the call's inputs
EvaluationKeepsInputs ==
    pc \in {"collect", "decide"} =>
        UNCHANGED << product, strategies, strategy_weights, ensemble_method >>

BatchProducts == << "P1", "P2", "P3" >>
BatchTopNs == 0..3
\* ai_score of a result, in percent; 0 is the neutral result's
BatchScores == {0, 60, 80}
\* what analyze_product does for one product: raises or returns a result
BatchOutcomes ==
    {[raised |-> TRUE, ai_score |-> 0]}
       \cup {[raised |-> FALSE, ai_score |-> score] : score \in BatchScores}

\* results[:n] of Python, n negative counting from the end
Slice(results, n) ==
    LET stop == IF n < 0 THEN Len(results) + n ELSE n
    IN  IF stop <= 0 THEN << >>
        ELSE SubSeq(results, 1, IF stop > Len(results) THEN Len(results) ELSE stop)

\* one result put into a list already in descending order, behind its equals
RECURSIVE InsertByAiScore(_, _)
InsertByAiScore(result, sorted) ==
    IF sorted = << >> THEN << result >>
    ELSE IF Head(sorted).ai_score >= result.ai_score
         THEN << Head(sorted) >> \o InsertByAiScore(result, Tail(sorted))
         ELSE << result >> \o sorted

\* results.sort with the ai_score in ascending order
RECURSIVE Mut_SortByAiScore_Ascending(_)
Mut_SortByAiScore_Ascending(results) ==
    IF results = << >> THEN << >>
    ELSE LET sorted == Mut_SortByAiScore_Ascending(SubSeq(results, 1, Len(results) - 1))
             last == results[Len(results)]
             before == SelectSeq(sorted, LAMBDA r : r.ai_score <= last.ai_score)
             after == SelectSeq(sorted, LAMBDA r : r.ai_score > last.ai_score)
         IN  before \o << last >> \o after

\* results.sort(key = ai_score, reverse = True): stable, descending
RECURSIVE SortByAiScore(_)
SortByAiScore(results) ==
    IF results = << >> THEN << >>
    ELSE InsertByAiScore(results[Len(results)],
                         SortByAiScore(SubSeq(results, 1, Len(results) - 1)))

\* batch_analyze_products(symbol, market_data, products, top_n) is called
CallBatchAnalyzeProducts(count, top_n) ==
    /\ batch.pc = "idle"
    /\ batch' = [NoBatch EXCEPT !.pc = "loop",
                                !.products = SubSeq(BatchProducts, 1, count),
                                !.top_n = top_n]
    /\ UNCHANGED << config, inputs, evaluation, sizing, services, change, configs, call >>

\* one turn of the loop: analyze_product of the next product returns a
\* result, which is appended, or raises, which is logged
BatchAnalyzeProduct(outcome) ==
    /\ batch.pc = "loop"
    /\ Len(batch.outcomes) < Len(batch.products)
    /\ LET prod == batch.products[Len(batch.outcomes) + 1]
       IN  batch' = [batch EXCEPT
              !.outcomes = Append(@, outcome),
              !.results = IF outcome.raised THEN @
                          ELSE Append(@, [product_id |-> prod,
                                          ai_score |-> outcome.ai_score])]
    /\ UNCHANGED << config, inputs, evaluation, sizing, services, change, configs, call >>

\* after the loop: the sort and the return of the first top_n results
BatchReturn ==
    /\ batch.pc = "loop"
    /\ Len(batch.outcomes) = Len(batch.products)
    /\ LET sorted == SortByAiScore(batch.results)
       IN  batch' = [batch EXCEPT !.pc = "returned",
                                  !.results = sorted,
                                  !.returned = Slice(sorted, batch.top_n)]
    /\ UNCHANGED << config, inputs, evaluation, sizing, services, change, configs, call >>

NextBatch ==
    \/ \E count \in 0..Len(BatchProducts), top_n \in BatchTopNs :
          CallBatchAnalyzeProducts(count, top_n)
    \/ \E outcome \in BatchOutcomes : BatchAnalyzeProduct(outcome)
    \/ BatchReturn

SpecBatch == Init /\ [][NextBatch]_vars

\* the products of the batch whose analysis did not raise
BatchAnalysed == {i \in 1..Len(batch.outcomes) : ~ batch.outcomes[i].raised}
BatchReturnedIds == {batch.returned[j].product_id : j \in 1..Len(batch.returned)}

\* C20: batch_analyze_products returns min(top_n, k) results, k the number
\* of products whose analysis did not raise, each the result of one such
\* product, in non-increasing order of ai_score; an analysed product left out
\* has an ai_score no greater than any returned one, and a product whose
\* analysis raises is skipped while the products after it are still analysed.
C20_TopNByAiScore ==
    batch.pc = "returned" =>
        LET k == Cardinality(BatchAnalysed)
            returned == batch.returned
        IN  /\ Len(batch.outcomes) = Len(batch.products)
            /\ Len(returned) = IF batch.top_n < k THEN batch.top_n ELSE k
            /\ Cardinality(BatchReturnedIds) = Len(returned)
            /\ \A j \in 1..Len(returned) :
                  \E i \in BatchAnalysed :
                     /\ batch.products[i] = returned[j].product_id
                     /\ batch.outcomes[i].ai_score = returned[j].ai_score
            /\ \A j \in 1..Len(returned) - 1 :
                  returned[j].ai_score >= returned[j + 1].ai_score
            /\ \A i \in BatchAnalysed :
                  batch.products[i] \notin BatchReturnedIds =>
                     \A j \in 1..Len(returned) :
                        batch.outcomes[i].ai_score <= returned[j].ai_score

C20_Witness ==
    /\ batch.pc = "returned"
    /\ Len(batch.outcomes) = 3
    /\ batch.outcomes[1].raised
    /\ ~ batch.outcomes[2].raised /\ batch.outcomes[2].ai_score = 60
    /\ ~ batch.outcomes[3].raised /\ batch.outcomes[3].ai_score = 80
    /\ batch.top_n = 1
    /\ batch.returned = << [product_id |-> "P3", ai_score |-> 80] >>

(***************************************************************************)
(* BaseStrategy.combine_with_risk_management called on its own             *)
(***************************************************************************)
DefaultMaxRiskScorePct == 70
\* float('inf'), the default of an absent limit
Infinity == [inf |-> TRUE, v |-> 0]
Finite(x) == [inf |-> FALSE, v |-> x]
\* a > limit
Exceeds(a, limit) == ~ limit.inf /\ a > limit.v

\* amounts in dollars, risk scores in percent
RiskAmounts == {-50, 0, 200, 1000}
RiskScores == {50, 80}
\* the decisions make_investment_decision can return: a position size is
\* negative when the exposure exceeds the portfolio value, and then the
\* decision does not invest
RiskDecisions ==
    {d \in [should_invest : BOOLEAN, amount : RiskAmounts,
             risk_score : RiskScores, warnings : {<< >>}] :
        d.should_invest => d.amount >= 0}
RiskMaxPositions == {Infinity, Finite(500)}
RiskMaxExposures == {Infinity, Finite(1000)}
RiskCurrentExposures == {0, 800, 1000, 1500}
RiskMaxRiskScores == {DefaultMaxRiskScorePct, 90}
RiskParams ==
    {[max_position_size |-> mp, max_total_exposure |-> me,
      current_exposure |-> ce, max_risk_score |-> mr] :
        mp \in RiskMaxPositions, me \in RiskMaxExposures,
        ce \in RiskCurrentExposures, mr \in RiskMaxRiskScores}

\* BaseStrategy.combine_with_risk_management
CombineWithRiskManagement(d, risk_params) ==
    LET max_position == risk_params.max_position_size
        max_exposure == risk_params.max_total_exposure
        current_exposure == risk_params.current_exposure
        d1 == IF Exceeds(d.amount, max_position)
              THEN [d EXCEPT !.amount = max_position.v,
                             !.warnings = Append(@, "Position size limited")]
              ELSE d
        room == IF max_exposure.v - current_exposure > 0
                THEN max_exposure.v - current_exposure ELSE 0
        d2 == IF Exceeds(current_exposure + d1.amount, max_exposure)
              THEN IF room = 0
                   THEN [d1 EXCEPT !.amount = 0,
                                   !.should_invest = FALSE,
                                   !.warnings = Append(@, "Maximum exposure reached")]
                   ELSE [d1 EXCEPT !.amount = room,
                                   !.warnings = Append(@, "Position reduced to stay within exposure limit")]
              ELSE d1
    IN  IF d2.risk_score > risk_params.max_risk_score
        THEN [d2 EXCEPT !.should_invest = FALSE,
                        !.warnings = Append(@, "Risk score exceeds maximum")]
        ELSE d2

CallCombineWithRiskManagement(d, risk_params) ==
    /\ call = NoCall
    /\ call' = [fn |-> "combine_with_risk_management",
                decision |-> d,
                risk_params |-> risk_params,
                result |-> CombineWithRiskManagement(d, risk_params)]
    /\ UNCHANGED << config, inputs, evaluation, sizing, services, change, configs, batch >>

NextRisk ==
    \E d \in RiskDecisions, risk_params \in RiskParams :
        CallCombineWithRiskManagement(d, risk_params)

SpecRisk == Init /\ [][NextRisk]_vars

\* the exposure limit leaves no room for a further position
NoRoom(risk_params) ==
    /\ ~ risk_params.max_total_exposure.inf
    /\ risk_params.max_total_exposure.v <= risk_params.current_exposure

\* C21: after combine_with_risk_management the amount is at least 0, at most
\* max_position_size, and current_exposure + amount is at most
\* max_total_exposure when that is not below current_exposure; the decision
\* does not invest and carries a further warning whenever the exposure limit
\* leaves no room or the risk score exceeds max_risk_score.
C21_RiskLimitsTerminal ==
    call.fn = "combine_with_risk_management" =>
        LET r == call.result
            rp == call.risk_params
        IN  /\ r.amount >= 0
            /\ ~ Exceeds(r.amount, rp.max_position_size)
            /\ (~ rp.max_total_exposure.inf
                  /\ rp.max_total_exposure.v >= rp.current_exposure)
                  => rp.current_exposure + r.amount <= rp.max_total_exposure.v
            /\ (NoRoom(rp) \/ call.decision.risk_score > rp.max_risk_score)
                  => /\ ~ r.should_invest
                     /\ Len(r.warnings) > Len(call.decision.warnings)

(***************************************************************************)
(* AIAnalysisService.analyze_market_with_ai and the Redis cache            *)
(***************************************************************************)
\* the clock counts steps of 300 seconds
TicksPerHour == 12
\* CacheService.default_ttl, 300 seconds
DefaultTtlTicks == 1
\* AI_CACHE_TTL: 0, and the default 3600 seconds
AiCacheTtls == {0, 12}
\* the instants at which something happens: two clock hours
ClockTimes == {0, 1, 11, 12, 13}
MaxRequests == 3
AiSymbols == {<< "BTCUSDT" >>, << "ETHUSDT" >>}

\* now.strftime('%Y%m%d_%H')
HourKey(now) == IF now \div TicksPerHour = 0 THEN "20240101_00" ELSE "20240101_01"

\* a cache key without the symbol
Mut_GetCacheKey_NoSymbol(symbol, now) == << "ai_analysis", ":", HourKey(now) >>

\* AIAnalysisService._get_cache_key: f"ai_analysis:{symbol}:{hour_key}"
GetCacheKey(symbol, now) == << "ai_analysis", ":" >> \o symbol \o << ":", HourKey(now) >>

\* the entries Redis still holds at an instant (setex drops a key at its expiry)
Live(store, now) == {e \in store : now < e.expires_at}

\* CacheService.get: None (here << >>) when Redis is unreachable or the key
\* is missing, else the value in a one-element sequence
CacheGet(a, key) ==
    IF ~ a.redis_up THEN << >>
    ELSE LET found == {e \in Live(a.store, a.now) : e.key = key}
         IN  IF found = {} THEN << >> ELSE << (CHOOSE e \in found : TRUE).value >>

\* CacheService.set: the store afterwards; ttl or default_ttl
CacheSet(a, key, value, ttl) ==
    IF ~ a.redis_up THEN a.store
    ELSE LET seconds == IF ttl = 0 THEN DefaultTtlTicks ELSE ttl
         IN  {e \in Live(a.store, a.now) : e.key # key}
                \cup {[key |-> key, value |-> value, expires_at |-> a.now + seconds]}

\* AIAnalysisService.__init__ with the environment's settings
NewAIAnalysisService(enabled, cache_enabled, cache_ttl) ==
    /\ ~ ai.constructed
    /\ ai' = [ai EXCEPT !.constructed = TRUE, !.enabled = enabled,
                        !.cache_enabled = cache_enabled, !.cache_ttl = cache_ttl]
    /\ UNCHANGED << config, inputs, evaluation, sizing, change, configs, call,
                    batch, trading, memory >>

\* time passes
ClockAdvances ==
    /\ ai.constructed
    /\ \E t \in ClockTimes :
          /\ t > ai.now
          /\ \A u \in ClockTimes : u > ai.now => t <= u
          /\ ai' = [ai EXCEPT !.now = t]
    /\ UNCHANGED << config, inputs, evaluation, sizing, change, configs, call,
                    batch, trading, memory >>

\* Redis becomes unreachable or reachable again (is_available pings it)
RedisChanges ==
    /\ ai.constructed
    /\ ai' = [ai EXCEPT !.redis_up = ~ @]
    /\ UNCHANGED << config, inputs, evaluation, sizing, change, configs, call,
                    batch, trading, memory >>

\* analyze_market_with_ai(symbol, ..., force_refresh); generated tells
\* whether preparing and formatting the analysis went through
AnalyzeMarketWithAi(symbol, force_refresh, generated) ==
    /\ ai.constructed
    /\ ai.requests < MaxRequests
    /\ LET n == ai.requests + 1
           cache_key == GetCacheKey(symbol, ai.now)
           cached == IF ai.cache_enabled /\ ~ force_refresh
                     THEN CacheGet(ai, cache_key) ELSE << >>
           result == [symbol |-> symbol, timestamp |-> ai.now]
           answer(from_cache, error, analysis) ==
               [request |-> n, symbol |-> symbol, force_refresh |-> force_refresh,
                from_cache |-> from_cache, error |-> error, at |-> ai.now,
                analysis |-> analysis]
       IN  IF ~ ai.enabled
           THEN ai' = [ai EXCEPT !.requests = n,
                          !.response = answer("absent", FALSE, NoResponse.analysis)]
           ELSE IF cached # << >>
           THEN ai' = [ai EXCEPT !.requests = n,
                          !.response = answer("True", FALSE, cached[1])]
           ELSE IF ~ generated
           THEN ai' = [ai EXCEPT !.requests = n,
                          !.response = answer("False", TRUE, NoResponse.analysis)]
           ELSE ai' = [ai EXCEPT
                          !.requests = n,
                          !.store = IF ai.cache_enabled
                                    THEN CacheSet(ai, cache_key, result, ai.cache_ttl)
                                    ELSE @,
                          !.fresh = IF ai.cache_enabled /\ ai.redis_up
                                    THEN @ \cup {[request |-> n, symbol |-> symbol,
                                                  at |-> ai.now,
                                                  ttl |-> IF ai.cache_ttl = 0
                                                          THEN DefaultTtlTicks
                                                          ELSE ai.cache_ttl]}
                                    ELSE @,
                          !.response = answer("False", FALSE, result)]
    /\ UNCHANGED << config, inputs, evaluation, sizing, change, configs, call,
                    batch, trading, memory >>

NextAi ==
    \/ \E enabled \in BOOLEAN, cache_enabled \in BOOLEAN, cache_ttl \in AiCacheTtls :
          NewAIAnalysisService(enabled, cache_enabled, cache_ttl)
    \/ ClockAdvances
    \/ RedisChanges
    \/ \E symbol \in AiSymbols, force_refresh \in BOOLEAN, generated \in BOOLEAN :
          AnalyzeMarketWithAi(symbol, force_refresh, generated)

SpecAi == Init /\ [][NextAi]_vars

\* a step that is one analyze_market_with_ai request
AiRequestStep == ai'.requests = ai.requests + 1

\* an earlier request generated an analysis for the symbol and cached it, in
\* the clock hour of now and less than its TTL ago
FreshlyCached(symbol) ==
    \E f \in ai.fresh :
        /\ f.symbol = symbol
        /\ HourKey(f.at) = HourKey(ai.now)
        /\ ai.now < f.at + f.ttl

AiRequestServed ==
    AiRequestStep =>
        LET r == ai'.response
        IN  /\ (~ r.force_refresh /\ ai.redis_up /\ FreshlyCached(r.symbol))
                  => r.from_cache = "True"
            /\ r.force_refresh
                  => r.from_cache = IF ai.enabled THEN "False" ELSE "absent"
            /\ r.from_cache = "True"
                  => /\ r.analysis.symbol = r.symbol
                     /\ HourKey(r.analysis.timestamp) = HourKey(ai.now)

MaxRetries == 3
\* tasks of one kind waiting in the queue at a time
MaxWaiting == 1

TradingUnchanged ==
    UNCHANGED << config, inputs, evaluation, sizing, change, configs, call,
                 batch, ai, memory >>

\* execute_investment.delay(...)
Delay(t) ==
    [t EXCEPT !.delays = @ + 1,
              !.queue = @ \cup {[request |-> t.delays + 1, retries |-> 0]}]

\* POST /settings with enable_automated_trading
UpdateTradingSettings(flag) ==
    /\ trading.enable_automated_trading # flag
    /\ trading' = [trading EXCEPT !.enable_automated_trading = flag]
    /\ TradingUnchanged

\* POST /execute
ExecuteSingleInvestment ==
    /\ trading.delays < MaxDelays
    /\ trading' = IF ~ trading.enable_automated_trading
                  THEN trading
                  ELSE Delay(trading)
    /\ TradingUnchanged

\* POST /execute-batch: queues batch_execute_investments
ExecuteBatchInvestments ==
    /\ trading.batch_tasks < MaxWaiting
    /\ trading' = IF ~ trading.enable_automated_trading
                  THEN trading
                  ELSE [trading EXCEPT !.batch_tasks = @ + 1]
    /\ TradingUnchanged

\* POST /auto-execute: queues execute_pending_investments
TriggerAutoExecution ==
    /\ trading.pending_tasks < MaxWaiting
    /\ trading' = IF ~ trading.enable_automated_trading
                  THEN trading
                  ELSE [trading EXCEPT !.pending_tasks = @ + 1]
    /\ TradingUnchanged

\* celery beat, every 30 minutes: queues execute_pending_investments
BeatSchedule ==
    /\ trading.pending_tasks < MaxWaiting
    /\ trading' = [trading EXCEPT !.pending_tasks = @ + 1]
    /\ TradingUnchanged

\* the batch_execute_investments task runs, here with one request
BatchExecuteInvestments ==
    /\ trading.task.pc = "idle"
    /\ trading.batch_tasks > 0
    /\ trading.delays < MaxDelays
    /\ trading' = [Delay(trading) EXCEPT !.batch_tasks = @ - 1]
    /\ TradingUnchanged

\* the execute_pending_investments task runs; recommended tells whether a
\* recommendation has should_invest and ai_score >= 0.7
ExecutePendingInvestments(recommended) ==
    /\ trading.task.pc = "idle"
    /\ trading.pending_tasks > 0
    /\ trading.delays < MaxDelays
    /\ trading' = IF recommended
                  THEN [Delay(trading) EXCEPT !.pending_tasks = @ - 1]
                  ELSE [trading EXCEPT !.pending_tasks = @ - 1]
    /\ TradingUnchanged

\* the except blocks of execute_investment after the record exists: retry
\* while retries < max_retries, else the task fails
RetryOrFail(t) ==
    IF t.task.retries < MaxRetries
    THEN [t EXCEPT !.queue = @ \cup {[request |-> t.task.request,
                                      retries |-> t.task.retries + 1]},
                   !.task = NoTask]
    ELSE [t EXCEPT !.task = NoTask]

\* a worker takes an execute_investment task and creates the PENDING record.
\* outcome: "ok"; "unbound" when the session, the DAOs or the Investment
\* object raise, so that the handler's getattr(investment, ...) raises
\* itself and the task ends without a retry; "create" when
\* investment_dao.create raises.
ExecuteInvestmentStarts(w, outcome) ==
    /\ trading.task.pc = "idle"
    /\ w \in trading.queue
    /\ LET t == [trading EXCEPT !.queue = @ \ {w},
                                !.task = [pc |-> "subscribe", request |-> w.request,
                                          retries |-> w.retries,
                                          record |-> Len(trading.records) + 1]]
       IN  trading' =
             IF outcome = "unbound" THEN [t EXCEPT !.task = NoTask]
             ELSE IF outcome = "create" THEN RetryOrFail(t)
             ELSE [t EXCEPT !.records = Append(@, [request |-> w.request,
                                                   status |-> "PENDING",
                                                   subscribed |-> FALSE])]
    /\ TradingUnchanged

\* the inner except block: the record is marked FAILED and updated (the
\* update may raise as well), then the outer block retries
MarkFailed(t, update_ok) ==
    RetryOrFail(IF update_ok
                THEN [t EXCEPT !.records[t.task.record].status = "FAILED"]
                ELSE t)

\* binance_service.subscribe_dual_investment returns success, returns
\* without success, or raises
Subscribe(outcome, update_ok) ==
    /\ trading.task.pc = "subscribe"
    /\ trading' =
         IF outcome = "success"
         THEN [trading EXCEPT !.subscriptions[trading.task.request] = @ + 1,
                              !.records[trading.task.record].subscribed = TRUE,
                              !.task.pc = "update"]
         ELSE MarkFailed(trading, update_ok)
    /\ TradingUnchanged

\* investment_dao.update with status ACTIVE
UpdateActive(ok, update_ok) ==
    /\ trading.task.pc = "update"
    /\ trading' =
         IF ok
         THEN [trading EXCEPT !.records[trading.task.record].status = "ACTIVE",
                              !.task.pc = "log"]
         ELSE MarkFailed(trading, update_ok)
    /\ TradingUnchanged

\* strategy_log_dao.log_execution, then the return
LogExecution(ok, update_ok) ==
    /\ trading.task.pc = "log"
    /\ trading' =
         IF ok
         THEN [trading EXCEPT !.task = NoTask]
         ELSE MarkFailed(trading, update_ok)
    /\ TradingUnchanged

\* the cancel_investment task; update_ok tells whether its update went through
CancelInvestment(investment_id, update_ok) ==
    /\ trading.task.pc = "idle"
    /\ trading.records # << >>
    /\ trading' =
         IF investment_id \notin 1..Len(trading.records)
         THEN trading
         ELSE IF trading.records[investment_id].status # "ACTIVE"
         THEN trading
         ELSE IF update_ok
         THEN [trading EXCEPT !.records[investment_id].status = "CANCELLED"]
         ELSE trading
    /\ TradingUnchanged

NextTrading ==
    \/ \E flag \in BOOLEAN : UpdateTradingSettings(flag)
    \/ ExecuteSingleInvestment
    \/ ExecuteBatchInvestments
    \/ TriggerAutoExecution
    \/ BeatSchedule
    \/ BatchExecuteInvestments
    \/ \E recommended \in BOOLEAN : ExecutePendingInvestments(recommended)
    \/ \E w \in [request : 1..MaxDelays, retries : 0..MaxRetries],
          outcome \in {"ok", "unbound", "create"} :
          ExecuteInvestmentStarts(w, outcome)
    \/ \E outcome \in {"success", "refused", "raises"}, update_ok \in BOOLEAN :
          Subscribe(outcome, update_ok)
    \/ \E ok \in BOOLEAN, update_ok \in BOOLEAN : UpdateActive(ok, update_ok)
    \/ \E ok \in BOOLEAN, update_ok \in BOOLEAN : LogExecution(ok, update_ok)
    \/ \E investment_id \in 1..(MaxRetries + 2), update_ok \in BOOLEAN :
          CancelInvestment(investment_id, update_ok)

SpecTrading == Init /\ [][NextTrading]_vars

AllowedStatusChange(old, new) ==
    \/ old.status = new.status
    \/ old.status = "PENDING" /\ new.status = "ACTIVE" /\ new.subscribed
    \/ old.status = "PENDING" /\ new.status = "FAILED" /\ ~ new.subscribed
    \/ old.status = "ACTIVE" /\ new.status = "CANCELLED"

StatusChangesAllowed ==
    \A i \in 1..Len(trading.records) :
        AllowedStatusChange(trading.records[i], trading'.records[i])

NoDelayWhileOff ==
    ~ trading.enable_automated_trading => trading'.delays = trading.delays

\* C25: while enable_automated_trading is False no execute_investment task
\* is queued.
C25_SwitchBlocksQueueing == [][NoDelayWhileOff]_vars

(***************************************************************************)
(* Properties of the returned decision and signals                         *)
(***************************************************************************)
\* C26: in every decision analyze_product returns, should_invest = False
\* implies amount = 0, on the downgraded, the fallback and the
\* no-active-strategy paths.
C26_NoAmountWithoutInvesting ==
    Returned => (~ decision.should_invest => decision.amount = 0)

\* C27: the per-strategy signals in analyze_product's result are exactly
\* what the strategies returned: combining and deciding modify no signal's
\* reasons, confidence or strength, also when a single signal survives and
\* when the decision is downgraded for being below min_amount.
C27_SignalsAsReturned ==
    Returned =>
        \A i \in 1..Len(signals) :
            LET o == OriginalSignal(signals[i].strategy_name)
            IN  /\ signals[i].reasons = o.reasons
                /\ signals[i].confidence = o.confidence
                /\ signals[i].signal = o.signal

(***************************************************************************)
(* The strategy registry and the weight table                              *)
(***************************************************************************)
\* every entry and weight other than those of the named strategy is kept
OthersKept(name) ==
    /\ \A k \in DOMAIN strategy_weights \ {name} :
          /\ k \in DOMAIN strategy_weights'
          /\ strategy_weights'[k] = strategy_weights[k]
    /\ \A i \in 1..Len(strategies) :
          strategies[i].name # name =>
              \E j \in 1..Len(strategies') : strategies'[j] = strategies[i]

RegistryStep ==
    /\ Registered(strategies) = DOMAIN strategy_weights
    /\ Registered(strategies') = DOMAIN strategy_weights'
    /\ \A n \in Names, w \in Weights :
          AddStrategy(n, w) =>
              /\ Registered(strategies') = Registered(strategies) \cup {n}
              /\ Len(strategies') = Cardinality(Registered(strategies'))
              /\ strategies'[IndexOf(strategies', n)] = Entry(n, TRUE)
              /\ strategy_weights'[n] = w
              /\ OthersKept(n)
    /\ \A n \in Names \ Registered(strategies) :
          /\ RemoveStrategy(n) => UNCHANGED config
          /\ \A w \in Weights : UpdateStrategyWeight(n, w) => UNCHANGED config

\* C28: after any sequence of add_strategy, remove_strategy and
\* update_strategy_weight calls the registry and the weight table have the
\* same keys; add_strategy with an existing name replaces that entry and its
\* weight, and remove_strategy or update_strategy_weight with an unknown
\* name changes nothing.
C28_RegistryMatchesWeights == [][RegistryStep]_vars

\* the default strategy was removed, and CustomStrategy was added,
\* deactivated and added again with another weight
C28_Witness ==
    /\ pc = "idle"
    /\ strategies = << Entry("CustomStrategy", TRUE) >>
    /\ DOMAIN strategy_weights = {"CustomStrategy"}
    /\ strategy_weights["CustomStrategy"] = 2

(***************************************************************************)
(* Strength bands and validation of DualInvestmentStrategy signals         *)
(***************************************************************************)
\* DualInvestmentStrategy.analyze returned a signal
AnalyzeReturnedSignal == call.fn = "analyze" /\ call.result.kind = "signal"

\* C29: a DualInvestmentStrategy signal's confidence is the total score that
\* selects its strength band, so every such signal that passes validation
\* with the default min_confidence 0.6 is NEUTRAL, BUY or STRONG_BUY; a SELL
\* or STRONG_SELL signal of this strategy is rejected by validate_signal.
C29_ValidatedNeverSell ==
    AnalyzeReturnedSignal =>
        LET sig == call.result.sig
        IN  /\ ValidateSignal(sig) => sig.signal \in {NEUTRAL, BUY, STRONG_BUY}
            /\ sig.signal \in {SELL, STRONG_SELL} => ~ ValidateSignal(sig)

\* a valid signal in the lowest band validation lets through: NEUTRAL with
\* a confidence of at least 0.6 and below 0.65
C29_Witness ==
    /\ AnalyzeReturnedSignal
    /\ ValidateSignal(call.result.sig)
    /\ call.result.sig.signal = NEUTRAL
    /\ FLess(call.result.sig.confidence, Frac(65, 100))

\* the strategy does produce SELL signals, which validation rejects
C29_SellProduced ==
    /\ AnalyzeReturnedSignal
    /\ call.result.sig.signal = SELL
    /\ ~ ValidateSignal(call.result.sig)

(***************************************************************************)
(* MemoryCache: a dict of entries guarded by one threading.Lock.  Each     *)
(* thread has a stack of the methods it is inside; a method enters its     *)
(* with-block by acquiring the lock, runs its body and releases the lock   *)
(* on leaving the block.  Keys and patterns are tuples of characters, and  *)
(* the clock counts seconds.                                               *)
(***************************************************************************)
\* the most cache operations called, and the last second of the clock
MaxOps == 3
MaxTime == 2
MemoryKeys == { << "a", "x" >>, << "b" >> }
MemoryPatterns == { << "a", "*" >>, << "*" >> }
MemoryTtls == {0, 2}
MemoryOps == {"get", "set", "delete", "delete_pattern", "clear",
              "cleanup_expired", "stats"}

Frame(op, key, ttl, pattern, stage) ==
    [op |-> op, key |-> key, ttl |-> ttl, pattern |-> pattern, stage |-> stage]

Top(t) == memory.stack[t][Len(memory.stack[t])]
Inside(t) == Len(memory.stack[t]) > 0
WithoutKeys(cache, keys) == [k \in DOMAIN cache \ keys |-> cache[k]]
\* pattern.replace('*', '')
StripStars(pattern) == SelectSeq(pattern, LAMBDA c : c # "*")
\* str.startswith
StartsWith(key, prefix) ==
    Len(prefix) <= Len(key) /\ SubSeq(key, 1, Len(prefix)) = prefix
\* the keys whose entry has expired at the given time
Expired(cache, time) == {k \in DOMAIN cache : cache[k].expires_at <= time}

\* a thread calls a method of the singleton
MemoryCall(t, op, key, ttl, pattern) ==
    /\ ~ Inside(t)
    /\ memory.ops < MaxOps
    /\ memory' = [memory EXCEPT
          !.ops = @ + 1,
          !.stack[t] = << Frame(op, key, ttl, pattern, "enter") >>]
    /\ UNCHANGED << config, inputs, evaluation, sizing, change, configs, call,
                    batch, ai, trading >>

\* with self._lock: Lock.acquire blocks until the lock is free, whoever
\* holds it
MemoryAcquire(t) ==
    /\ Inside(t)
    /\ Top(t).stage = "enter"
    /\ memory.lock = "free"
    /\ memory' = [memory EXCEPT
          !.lock = t,
          !.stack[t][Len(memory.stack[t])].stage = "held"]
    /\ UNCHANGED << config, inputs, evaluation, sizing, change, configs, call,
                    batch, ai, trading >>

\* the dict and the return value after the body of a with-block
MemoryBodyResult(f, cache, now) ==
    IF f.op = "get"
    THEN IF f.key \in DOMAIN cache
         THEN IF cache[f.key].expires_at > now
              THEN [cache |-> cache,
                    ret |-> [NoReturn EXCEPT !.op = "get", !.hit = TRUE,
                                !.value = cache[f.key].value,
                                !.expires_at = cache[f.key].expires_at,
                                !.at = now]]
              ELSE [cache |-> WithoutKeys(cache, {f.key}),
                    ret |-> [NoReturn EXCEPT !.op = "get", !.at = now]]
         ELSE [cache |-> cache, ret |-> [NoReturn EXCEPT !.op = "get", !.at = now]]
    ELSE IF f.op = "set"
    THEN [cache |-> [k \in DOMAIN cache \cup {f.key} |->
                        IF k = f.key
                        THEN [value |-> "v", expires_at |-> now + f.ttl]
                        ELSE cache[k]],
          ret |-> [NoReturn EXCEPT !.op = "set", !.at = now]]
    ELSE IF f.op = "delete"
    THEN [cache |-> WithoutKeys(cache, {f.key}),
          ret |-> [NoReturn EXCEPT !.op = "delete", !.at = now]]
    ELSE IF f.op = "delete_pattern"
    THEN [cache |-> WithoutKeys(cache,
                       {k \in DOMAIN cache : StartsWith(k, StripStars(f.pattern))}),
          ret |-> [NoReturn EXCEPT !.op = "delete_pattern", !.at = now]]
    ELSE IF f.op = "clear"
    THEN [cache |-> << >>, ret |-> [NoReturn EXCEPT !.op = "clear", !.at = now]]
    ELSE [cache |-> WithoutKeys(cache, Expired(cache, now)),
          ret |-> [NoReturn EXCEPT !.op = "cleanup_expired", !.at = now]]

\* the body of the with-block, run while holding the lock.  stats calls
\* self.cleanup_expired() from inside its block.
MemoryBody(t) ==
    /\ Inside(t)
    /\ Top(t).stage = "held"
    /\ IF Top(t).op = "stats"
       THEN memory' = [memory EXCEPT
               !.stack[t] =
                   << [Top(t) EXCEPT !.stage = "called"],
                      Frame("cleanup_expired", << >>, 0, << >>, "enter") >>]
       ELSE LET r == MemoryBodyResult(Top(t), memory.cache, memory.now)
            IN  memory' = [memory EXCEPT
                   !.cache = r.cache,
                   !.result[t] = r.ret,
                   !.stack[t][Len(memory.stack[t])].stage = "exit"]
    /\ UNCHANGED << config, inputs, evaluation, sizing, change, configs, call,
                    batch, ai, trading >>

\* leaving the with-block releases the lock and the method returns; stats
\* goes on to count the keys once its cleanup_expired call has returned
MemoryExit(t) ==
    /\ Inside(t)
    /\ Top(t).stage = "exit"
    /\ LET rest == SubSeq(memory.stack[t], 1, Len(memory.stack[t]) - 1)
       IN  IF Len(rest) = 0
           THEN memory' = [memory EXCEPT !.lock = "free", !.stack[t] = << >>]
           ELSE memory' = [memory EXCEPT
                   !.lock = "free",
                   !.stack[t] = << [rest[1] EXCEPT !.stage = "exit"] >>,
                   !.result[t] =
                       [NoReturn EXCEPT
                           !.op = "stats", !.at = memory.now,
                           !.total_keys = Cardinality(DOMAIN memory.cache),
                           !.live_keys =
                               Cardinality(DOMAIN memory.cache
                                           \ Expired(memory.cache, memory.now))]]
    /\ UNCHANGED << config, inputs, evaluation, sizing, change, configs, call,
                    batch, ai, trading >>

\* time.time() moves on
MemoryClockAdvances ==
    /\ memory.now < MaxTime
    /\ memory' = [memory EXCEPT !.now = @ + 1]
    /\ UNCHANGED << config, inputs, evaluation, sizing, change, configs, call,
                    batch, ai, trading >>

NextMemory ==
    \/ \E t \in MemoryThreads, op \in MemoryOps, key \in MemoryKeys,
          ttl \in MemoryTtls, pattern \in MemoryPatterns :
          MemoryCall(t, op,
                     IF op \in {"get", "set", "delete"} THEN key ELSE << >>,
                     IF op = "set" THEN ttl ELSE 0,
                     IF op = "delete_pattern" THEN pattern ELSE << >>)
    \/ \E t \in MemoryThreads : MemoryAcquire(t)
    \/ \E t \in MemoryThreads : MemoryBody(t)
    \/ \E t \in MemoryThreads : MemoryExit(t)
    \/ MemoryClockAdvances

\* every thread keeps running, and a thread waiting for the lock gets it if
\* the lock is free again and again
SpecMemory ==
    /\ Init
    /\ [][NextMemory]_vars
    /\ \A t \in MemoryThreads :
          /\ SF_vars(MemoryAcquire(t))
          /\ WF_vars(MemoryBody(t))
          /\ WF_vars(MemoryExit(t))

\* what get and stats returned is right for the time they looked at
ReturnsAreLive ==
    \A t \in MemoryThreads :
        LET r == memory.result[t]
        IN  /\ (r.op = "get" /\ r.hit) => r.expires_at > r.at
            /\ r.op = "stats" => r.total_keys = r.live_keys

\* C30: every MemoryCache operation terminates and releases the lock under
\* any interleaving of threads; stats() returns the count of non-expired
\* keys and get() never returns a value whose expiry time has passed.
C30_OperationsTerminate ==
    /\ []ReturnsAreLive
    /\ \A t \in MemoryThreads :
          Inside(t) ~> (~ Inside(t) /\ memory.lock # t)

====
